---------------------------- MODULE Spec2Model ----------------------------
(***************************************************************************)
(* Model of the voice-companion backend (src/backend):                     *)
(*   - content_safety.py : the pattern matcher and the resource catalog    *)
(*   - persona_store.py  : the in-memory persona store                     *)
(*   - main.py           : the /chat turn orchestrator and persona routes  *)
(*   - services.py       : classifier, phrase selection, voice settings    *)
(*                                                                         *)
(* Floats are kept here as integers: a confidence in hundredths (0.75 is   *)
(* 75), a voice parameter (stability, similarity_boost, style) in          *)
(* thousandths (0.75 is 750), so that round(x, 2) has something to round.  *)
(*                                                                         *)
(* A text is a sequence of word tokens.  Adjacent tokens are separated by  *)
(* exactly one blank; the token "SP" stands for a run of additional        *)
(* whitespace (it is what str.strip() removes at both ends and what keeps  *)
(* a literal blank in a regular expression from matching).                 *)
(***************************************************************************)
EXTENDS Integers, Sequences, FiniteSets, TLC

VARIABLES
    text,        \* SpecGate: the input handed to check_content
    result,      \* SpecGate: the ContentSafetyResult returned, or NoResult
    personas,    \* PersonaStore._personas, in insertion order
    nextId,      \* number of uuid4 ids handed out so far
    lastOp,      \* the last store operation and what it returned / observed
    turns,       \* the /chat requests in flight
    resources,   \* ContentSafetyChecker._resources_cache
    phrases,     \* CustomResponseSelector.phrases
    config,      \* which external clients the environment configured
    prev,        \* what an earlier, finished /chat request came out with
    requests     \* the persona-route requests in flight and those served

vars ==
    <<text, result, personas, nextId, lastOp, turns, resources, phrases, config, prev,
      requests>>

-----------------------------------------------------------------------------
(* Bounds of the model *)

MaxWords == 3      \* longest text handed to check_content
MaxCreates == 2    \* personas created over a run of the store
MaxTurnCreates == 1  \* personas created while turns are in flight

-----------------------------------------------------------------------------
(* content_safety.py: HarmCategory, HARM_PATTERNS, CRISIS_CATEGORIES *)

HarmCategory ==
    {"none", "suicide_self_harm", "self_harm", "discrimination", "abuse",
     "violence", "substance_abuse", "general_harmful"}

\* One group of a pattern: the alternatives it accepts (each a sequence of
\* words) and whether the group carries a trailing "?".
Req(alts) == [alts |-> alts, opt |-> FALSE]
Opt(alts) == [alts |-> alts, opt |-> TRUE]

WantPrefix == Opt({<<"want", "to">>, <<"wanna">>, <<"going", "to">>, <<"gonna">>})

HARM_PATTERNS ==
    [c \in HarmCategory |->
      CASE c = "suicide_self_harm" -> <<
             <<WantPrefix,
               Req({<<"kill", "myself">>, <<"end", "my", "life">>,
                    <<"end", "it", "all">>, <<"commit", "suicide">>})>>,
             <<Req({<<"suicidal">>, <<"suicide">>})>>,
             <<Req({<<"don't", "want", "to", "live">>, <<"dont", "want", "to", "live">>,
                    <<"don't", "want", "to", "be", "alive">>,
                    <<"dont", "want", "to", "be", "alive">>,
                    <<"wish", "i", "was", "dead">>, <<"better", "off", "dead">>})>>,
             <<Req({<<"take", "my">>, <<"taking", "my">>}), Opt({<<"own">>}),
               Req({<<"life">>})>>,
             <<Req({<<"no", "reason", "to", "live">>, <<"nothing", "to", "live", "for">>})>> >>
        [] c = "self_harm" -> <<
             <<Req({<<"cut", "myself">>, <<"cutting", "myself">>,
                    <<"hurt", "myself">>, <<"hurting", "myself">>})>>,
             <<Req({<<"self-harm">>, <<"self", "harm">>, <<"selfharm">>,
                    <<"self-injury">>, <<"self", "injury">>, <<"selfinjury">>})>>,
             <<Req({<<"burn", "myself">>, <<"burning", "myself">>,
                    <<"starve", "myself">>, <<"starving", "myself">>})>> >>
        [] c = "discrimination" -> <<
             <<Req({<<"hate">>, <<"kill">>, <<"eliminate">>, <<"destroy">>}),
               Opt({<<"all">>}),
               Req({<<"black">>, <<"blacks">>, <<"white">>, <<"whites">>,
                    <<"jew">>, <<"jews">>, <<"muslim">>, <<"muslims">>,
                    <<"christian">>, <<"christians">>, <<"hindu">>, <<"hindus">>,
                    <<"gay">>, <<"gays">>, <<"lesbian">>, <<"lesbians">>, <<"trans">>})>>,
             <<Req({<<"racial", "slurs", "detected", "by", "context">>})>>,
             <<Req({<<"those", "people", "deserve">>, <<"they", "all", "deserve">>}),
               Req({<<"to", "die">>, <<"death">>, <<"suffering">>})>> >>
        [] c = "abuse" -> <<
             <<Req({<<"being", "abused">>, <<"someone", "is", "abusing", "me">>,
                    <<"someone", "abusing", "me">>, <<"hit", "me">>, <<"hits", "me">>,
                    <<"beats", "me">>})>>,
             <<Req({<<"domestic", "violence">>, <<"domestic", "abuse">>,
                    <<"physical", "abuse">>, <<"emotional", "abuse">>,
                    <<"sexual", "abuse">>})>>,
             <<Req({<<"my">>}),
               Req({<<"partner">>, <<"spouse">>, <<"husband">>, <<"wife">>,
                    <<"boyfriend">>, <<"girlfriend">>}),
               Req({<<"hits">>, <<"beats">>, <<"hurts">>}), Req({<<"me">>})>>,
             <<Req({<<"i'm">>, <<"i", "am">>}), Req({<<"being">>, <<"getting">>}),
               Req({<<"abused">>})>> >>
        [] c = "violence" -> <<
             <<WantPrefix,
               Req({<<"kill">>, <<"murder">>, <<"hurt">>, <<"attack">>, <<"shoot">>,
                    <<"stab">>}),
               Req({<<"someone">>, <<"people">>, <<"them">>, <<"him">>, <<"her">>,
                    <<"everybody">>})>>,
             <<Req({<<"bring", "a">>}), Req({<<"gun">>, <<"weapon">>, <<"knife">>}),
               Req({<<"to">>})>>,
             <<Req({<<"planning">>}), Req({<<"to">>, <<"a">>}),
               Req({<<"attack">>, <<"shooting">>, <<"violence">>})>> >>
        [] c = "substance_abuse" -> <<
             <<Req({<<"addicted", "to">>, <<"addiction", "to">>}),
               Req({<<"drug">>, <<"drugs">>, <<"alcohol">>, <<"heroin">>, <<"cocaine">>,
                    <<"meth">>, <<"pill">>, <<"pills">>, <<"opioid">>, <<"opioids">>})>>,
             <<Req({<<"can't", "stop">>, <<"cant", "stop">>}),
               Req({<<"using">>, <<"drinking">>, <<"taking">>})>>,
             <<Req({<<"overdose">>, <<"od'd">>, <<"odd">>, <<"od'ing">>, <<"oding">>})>> >>
        [] OTHER -> << >> ]

\* The keys of HARM_PATTERNS in the order the dict literal lists them, which
\* is the order "for category, patterns in HARM_PATTERNS.items()" visits them.
HARM_PATTERNS_KEYS ==
    <<"suicide_self_harm", "self_harm", "discrimination", "abuse", "violence",
      "substance_abuse">>

CRISIS_CATEGORIES == {"suicide_self_harm", "self_harm", "abuse", "violence"}

-----------------------------------------------------------------------------
(* Text primitives: str.lower(), str.strip(), re.search *)

\* str.lower() on one word; the words of the model that carry capitals.
LowerWord(w) ==
    CASE w = "KILL" -> "kill"
      [] w = "Myself" -> "myself"
      [] w = "I" -> "i"
      [] w = "My" -> "my"
      [] w = "How" -> "how"
      [] OTHER -> w

Lower(t) == [i \in 1..Len(t) |-> LowerWord(t[i])]

\* "not text or not text.strip()": empty, or nothing but whitespace.
IsBlank(t) == \A i \in 1..Len(t) : t[i] = "SP"

\* alt occurs in t starting at position pos.
MatchAlt(t, pos, alt) ==
    /\ pos + Len(alt) - 1 <= Len(t)
    /\ \A i \in 1..Len(alt) : t[pos + i - 1] = alt[i]

\* groups k.. of pattern match t starting at position pos.
RECURSIVE MatchGroups(_, _, _, _)
MatchGroups(t, pos, pattern, k) ==
    IF k > Len(pattern) THEN TRUE
    ELSE \/ \E alt \in pattern[k].alts :
               /\ MatchAlt(t, pos, alt)
               /\ MatchGroups(t, pos + Len(alt), pattern, k + 1)
         \/ /\ pattern[k].opt
            /\ MatchGroups(t, pos, pattern, k + 1)

\* re.search(pattern, t): the pattern matches somewhere, between word
\* boundaries.
re_search(pattern, t) == \E pos \in 1..Len(t) : MatchGroups(t, pos, pattern, 1)


-----------------------------------------------------------------------------
(* content_safety.py: ContentSafetyChecker.check_content *)

ContentSafetyResult(is_harmful, category, confidence, requires_crisis, matched) ==
    [is_harmful |-> is_harmful, category |-> category, confidence |-> confidence,
     requires_crisis_resources |-> requires_crisis, matched_patterns |-> matched]

\* A mutant of category_priority: the suicide category carries the lowest
\* weight.
category_priority_SuicideLowest(category) ==
    IF category = "suicide_self_harm" THEN 55 ELSE 75

\* The category_priority table and its .get(category, 0.5), in hundredths.
category_priority(category) ==
    CASE category = "suicide_self_harm" -> 100
      [] category = "self_harm" -> 95
      [] category = "violence" -> 90
      [] category = "abuse" -> 85
      [] category = "discrimination" -> 80
      [] category = "substance_abuse" -> 75
      [] category = "general_harmful" -> 60
      [] OTHER -> 50

\* A mutant of RecordMatch: the last matching category wins.
RecordMatch_LastWins(acc, category, k) ==
    [matched_patterns |-> Append(acc.matched_patterns, <<category, k>>),
     detected_category |-> category,
     highest_confidence |-> category_priority(category)]

\* The body of "if re.search(...)": record the pattern and keep the category
\* of strictly higher priority.
RecordMatch(acc, category, k) ==
    LET priority == category_priority(category)
        matched  == Append(acc.matched_patterns, <<category, k>>)
    IN  IF priority > acc.highest_confidence
        THEN [matched_patterns |-> matched, detected_category |-> category,
              highest_confidence |-> priority]
        ELSE [acc EXCEPT !.matched_patterns = matched]

\* "for pattern in patterns", from the k-th pattern of the category on.
RECURSIVE ScanPatterns(_, _, _, _)
ScanPatterns(text_lower, category, k, acc) ==
    IF k > Len(HARM_PATTERNS[category]) THEN acc
    ELSE ScanPatterns(text_lower, category, k + 1,
                      IF re_search(HARM_PATTERNS[category][k], text_lower)
                      THEN RecordMatch(acc, category, k)
                      ELSE acc)

\* "for category, patterns in HARM_PATTERNS.items()", visiting the categories
\* in the given order, from the ci-th on.
RECURSIVE ScanCategories(_, _, _, _)
ScanCategories(text_lower, order, ci, acc) ==
    IF ci > Len(order) THEN acc
    ELSE ScanCategories(text_lower, order, ci + 1,
                        ScanPatterns(text_lower, order[ci], 1, acc))

\* A mutant of EmptyTextResult: the early return reports no confidence.
EmptyTextResult_ZeroConfidence == ContentSafetyResult(FALSE, "none", 0, FALSE, << >>)

\* The early return for empty and whitespace-only text.
EmptyTextResult == ContentSafetyResult(FALSE, "none", 100, FALSE, << >>)

\* A mutant of BuildResult: violence is not a crisis category.
BuildResult_NoViolenceCrisis(acc) ==
    LET is_harmful == acc.detected_category # "none"
    IN  ContentSafetyResult(is_harmful, acc.detected_category,
                            IF is_harmful THEN acc.highest_confidence ELSE 100,
                            acc.detected_category \in CRISIS_CATEGORIES \ {"violence"},
                            acc.matched_patterns)

\* The tail of check_content: the result built from what the scan found.
BuildResult(acc) ==
    LET is_harmful      == acc.detected_category # "none"
        requires_crisis == acc.detected_category \in CRISIS_CATEGORIES
    IN  ContentSafetyResult(is_harmful, acc.detected_category,
                            IF is_harmful THEN acc.highest_confidence ELSE 100,
                            requires_crisis, acc.matched_patterns)

\* check_content with the categories visited in the given order.
CheckContentInOrder(order, t) ==
    IF Len(t) = 0 \/ IsBlank(t)
    THEN EmptyTextResult
    ELSE BuildResult(ScanCategories(Lower(t), order, 1,
                        [matched_patterns |-> << >>, detected_category |-> "none",
                         highest_confidence |-> 0]))

check_content(t) == CheckContentInOrder(HARM_PATTERNS_KEYS, t)

\* The module-level convenience function, on the global checker.
check_content_safety(t) == check_content(t)

-----------------------------------------------------------------------------
(* models.py: Persona;  persona_store.py: PersonaStore *)

\* Python's None where a string is expected.
NoneVal == "<None>"

DEFAULT_VOICE_ID == "21m00Tcm4TlvDq8ikWAM"

\* kwargs.get(key, default) for keyword arguments given as a record.
Arg(kwargs, key, default) == IF key \in DOMAIN kwargs THEN kwargs[key] ELSE default

\* Python truthiness of an optional string: None and "" are falsy.
Truthy(s) == s # NoneVal /\ s # ""

\* The ids uuid4 hands out, in the order it hands them out.
Uuids == <<"uuid-1", "uuid-2", "uuid-3", "uuid-4">>

\* The persona _initialize_default_persona builds.
DefaultPersona ==
    [id |-> "default-cheerful", name |-> "Cheerful",
     base_prompt |-> "CHEERFUL_PERSONA_PROMPT", voice_id |-> DEFAULT_VOICE_ID,
     base_stability |-> 400, base_similarity_boost |-> 750, base_style |-> 200,
     is_default |-> TRUE]

\* dict: the position of a key, "key in dict", dict[key] = value, del dict[key].
HasKey(ps, id) == \E i \in 1..Len(ps) : ps[i].id = id
KeyIndex(ps, id) == CHOOSE i \in 1..Len(ps) : ps[i].id = id
DictSet(ps, p) ==
    IF HasKey(ps, p.id) THEN [ps EXCEPT ![KeyIndex(ps, p.id)] = p] ELSE Append(ps, p)
DictDel(ps, id) ==
    LET k == KeyIndex(ps, id)
    IN  [i \in 1..(Len(ps) - 1) |-> IF i < k THEN ps[i] ELSE ps[i + 1]]

\* PersonaStore._initialize_default_persona
initialize_default_persona(ps) == DictSet(ps, DefaultPersona)

\* PersonaStore.get: the persona as a one-element list, or the empty list
\* for None.
store_get(ps, id) == IF HasKey(ps, id) THEN <<ps[KeyIndex(ps, id)]>> ELSE << >>

\* PersonaStore.get_default: the store afterwards and the persona returned.
store_get_default(ps) ==
    IF \E i \in 1..Len(ps) : ps[i].is_default
    THEN [store |-> ps,
          persona |-> ps[CHOOSE i \in 1..Len(ps) :
                            /\ ps[i].is_default
                            /\ \A j \in 1..(i - 1) : ~ps[j].is_default]]
    ELSE [store |-> initialize_default_persona(ps), persona |-> DefaultPersona]

\* A mutant of NewPersona: the created persona takes the default flag.
NewPersona_AsDefault(id, args) ==
    [id |-> id, name |-> args.name, base_prompt |-> args.base_prompt,
     voice_id |-> IF Truthy(Arg(args, "voice_id", NoneVal))
                  THEN args.voice_id ELSE DEFAULT_VOICE_ID,
     base_stability |-> Arg(args, "base_stability", 500),
     base_similarity_boost |-> Arg(args, "base_similarity_boost", 750),
     base_style |-> Arg(args, "base_style", 0),
     is_default |-> TRUE]

\* The Persona that PersonaStore.create builds from its arguments.
NewPersona(id, args) ==
    [id |-> id, name |-> args.name, base_prompt |-> args.base_prompt,
     voice_id |-> IF Truthy(Arg(args, "voice_id", NoneVal))
                  THEN args.voice_id ELSE DEFAULT_VOICE_ID,
     base_stability |-> Arg(args, "base_stability", 500),
     base_similarity_boost |-> Arg(args, "base_similarity_boost", 750),
     base_style |-> Arg(args, "base_style", 0),
     is_default |-> FALSE]

\* A mutant of UpdatedPersona: a new base_stability is not written.
UpdatedPersona_StabilityLost(p, kwargs) ==
    LET keys == (DOMAIN kwargs \ {"is_default", "id", "base_stability"}) \cap DOMAIN p
    IN  [f \in DOMAIN p |-> IF f \in keys THEN kwargs[f] ELSE p[f]]

\* A mutant of UpdatedPersona: is_default and id are not popped.
UpdatedPersona_NothingPopped(p, kwargs) ==
    LET keys == DOMAIN kwargs \cap DOMAIN p
    IN  [f \in DOMAIN p |-> IF f \in keys THEN kwargs[f] ELSE p[f]]

\* PersonaStore.update on a persona that exists: is_default and id are
\* popped, every other keyword that names an attribute is set.
UpdatedPersona(p, kwargs) ==
    LET keys == (DOMAIN kwargs \ {"is_default", "id"}) \cap DOMAIN p
    IN  [f \in DOMAIN p |-> IF f \in keys THEN kwargs[f] ELSE p[f]]

\* A mutant of AfterDelete: the store is left empty.
AfterDelete_NoReseed(ps, id) == DictDel(ps, id)

\* PersonaStore.delete on a persona that exists: the store afterwards.
AfterDelete(ps, id) ==
    LET rest == DictDel(ps, id)
    IN  IF Len(rest) = 0 THEN initialize_default_persona(rest) ELSE rest

-----------------------------------------------------------------------------
(* content_safety.py: the resource catalog and the supportive response *)

\* dict.get(key, default) on a dict given as a function.
DictGet(d, key, default) == IF key \in DOMAIN d THEN d[key] ELSE default

\* A function with no keys: the empty dict.
EmptyDict == [k \in {} |-> << >>]

\* ContentSafetyChecker._get_default_resources
default_resources ==
    [crisis_resources |->
        [k \in {"suicide_self_harm"} |->
            [helplines |-> <<[name |-> "Crisis Line", phone |-> "988",
                              description |-> "24/7 support"]>>]],
     supportive_messages |->
        [k \in {"suicide_self_harm", "general_harmful"} |->
            IF k = "suicide_self_harm"
            THEN "I hear you, and I care about your wellbeing. Please reach out to a crisis helpline for support."
            ELSE "I'm here for you. Let's focus on finding positive ways forward together."]]

\* A crisis_resources.json document as section 6 of the design describes it:
\* a message per harm category and the three buckets, one without helplines.
file_resources ==
    [crisis_resources |->
        [k \in {"suicide_self_harm", "abuse", "general_support"} |->
            [helplines |->
                CASE k = "suicide_self_harm" ->
                       <<[name |-> "Lifeline", phone |-> "1800-599-0019",
                          description |-> "Free, 24/7"],
                         [name |-> "Second Line", phone |-> "112",
                          description |-> ""]>>
                  [] k = "abuse" ->
                       <<[name |-> "Women Helpline", phone |-> "181",
                          description |-> "Support for abuse"]>>
                  [] OTHER -> << >>]],
     supportive_messages |->
        [k \in HarmCategory \ {"none", "general_harmful"} |->
            CASE k = "suicide_self_harm" -> "You matter, and you are not alone."
              [] k = "self_harm" -> "Your pain is real, and you deserve care."
              [] k = "discrimination" -> "Everyone deserves respect and dignity."
              [] k = "abuse" -> "What is happening to you is not your fault."
              [] k = "violence" -> "I can hear how strong these feelings are."
              [] OTHER -> "Reaching out about this takes courage."]]

\* A document that json.load accepts but whose primary helpline carries no
\* "name", and that has only the generic message.
sparse_resources ==
    [crisis_resources |->
        [k \in {"suicide_self_harm"} |-> [helplines |-> <<[phone |-> "988"]>>]],
     supportive_messages |->
        [k \in {"general_harmful"} |-> "Let's find a positive way forward."]]

\* ContentSafetyChecker.get_supportive_response (the method)
supportive_message(category) ==
    LET messages == DictGet(resources, "supportive_messages", EmptyDict)
    IN  DictGet(messages, category,
                DictGet(messages, "general_harmful",
                        "I'm here for you. Whatever you're going through, there are people who care."))

\* The category_mapping of get_crisis_resources and its .get default.
resource_key(category) ==
    CASE category \in {"suicide_self_harm", "self_harm"} -> "suicide_self_harm"
      [] category = "abuse" -> "abuse"
      [] OTHER -> "general_support"

\* ContentSafetyChecker.get_crisis_resources
get_crisis_resources(category) ==
    DictGet(DictGet(resources, "crisis_resources", EmptyDict),
            resource_key(category), [helplines |-> << >>])

\* A returned value, and a raised exception.
Returned(value) == [ok |-> TRUE, value |-> value]
Raised(error) == [ok |-> FALSE, value |-> <<error>>]

\* A document that json.load accepts and whose message for one category is
\* the empty string.
blank_resources ==
    [supportive_messages |-> [k \in {"violence"} |-> ""]]

\* A value that is no dict: a JSON list, or None.  Dicts are functions on
\* their keys; a value of another type is a record with the field json_type.
NonObject(type) == [json_type |-> type]
IsObject(value) == "json_type" \notin DOMAIN value

\* The file at resources_path: absent, present but not readable, bytes that
\* are no UTF-8, text that is no JSON, or a JSON document.
ResourceFile(kind, doc) == [kind |-> kind, doc |-> doc]
ResourceFiles ==
    {ResourceFile(k, EmptyDict) : k \in {"missing", "unreadable", "undecodable", "malformed"}}
        \cup {ResourceFile("json", doc) :
                 doc \in {file_resources, sparse_resources, blank_resources,
                          EmptyDict, NonObject("list")}}

\* ContentSafetyChecker._load_resources: the _resources_cache it leaves, or
\* the exception of open() / json.load() that no except clause names.
load_resources(file) ==
    CASE file.kind = "missing" -> Returned(default_resources)
      [] file.kind = "malformed" -> Returned(default_resources)
      [] file.kind = "unreadable" -> Raised("PermissionError")
      [] file.kind = "undecodable" -> Raised("UnicodeDecodeError")
      [] OTHER -> Returned(file.doc)

\* ContentSafetyChecker.get_supportive_response with its outcome: .get on a
\* _resources_cache that is no dict raises AttributeError.
checker_get_supportive_response(category) ==
    IF IsObject(resources) THEN Returned(supportive_message(category))
    ELSE Raised("AttributeError")

\* ContentSafetyChecker.format_response_with_resources: the parts of the
\* string it returns, in order; primary['name'] and primary['phone'] raise
\* KeyError when the helpline has no such key, and .get on a _resources_cache
\* that is no dict raises AttributeError.
format_response_with_resources(category) ==
    LET base_message == supportive_message(category)
        helplines    == DictGet(get_crisis_resources(category), "helplines", << >>)
    IN  IF ~IsObject(resources) THEN Raised("AttributeError")
        ELSE IF category \notin CRISIS_CATEGORIES THEN Returned(<<base_message>>)
        ELSE IF Len(helplines) > 0
        THEN IF {"name", "phone"} \subseteq DOMAIN helplines[1]
             THEN Returned(<<base_message, "You can reach out to", helplines[1].name,
                             "at", helplines[1].phone,
                             DictGet(helplines[1], "description", "")>>)
             ELSE Raised("KeyError")
        ELSE Returned(<<base_message>>)

\* The module-level get_supportive_response, on the global checker.
get_supportive_response(category) == format_response_with_resources(category)

-----------------------------------------------------------------------------
(* models.py: VALID_INTENTS, VALID_TONES;  services.py *)

VALID_INTENTS == {"venting", "seeking_advice", "casual_chat", "question"}
VALID_TONES == {"happy", "sad", "frustrated", "neutral", "anxious", "excited"}

IntentToneAnalysis(transcript, intent, tone, confidence) ==
    [transcript |-> transcript, intent |-> intent, tone |-> tone,
     confidence |-> confidence]

Min(a, b) == IF a < b THEN a ELSE b
Max(a, b) == IF a > b THEN a ELSE b

\* JSON values as json.loads returns them.
JStr(s) == [t |-> "str", v |-> s]
JNum(n) == [t |-> "num", v |-> n]
JBool(b) == [t |-> "bool", v |-> b]
JNull == [t |-> "null"]
JNaN == [t |-> "nan"]
JArray == [t |-> "array"]
JObject(fields) == [t |-> "object", fields |-> fields]

\* response.text as a sequence of tokens: a ``` marker, a word, or the text
\* of one JSON value.
FenceTok == [t |-> "fence"]
WordTok(w) == [t |-> "word", v |-> w]

\* float('nan') among the hundredths.
NaN == 0 - 99999

\* "Handle potential markdown code blocks": split("```")[1] and the removal
\* of a leading "json".
StripFence(tokens) ==
    IF Len(tokens) > 0 /\ tokens[1].t = "fence"
    THEN LET rest  == Tail(tokens)
             stops == {i \in 1..Len(rest) : rest[i].t = "fence"} \cup {Len(rest) + 1}
             stop  == CHOOSE i \in stops : \A j \in stops : i <= j
             part  == SubSeq(rest, 1, stop - 1)
         IN  IF Len(part) > 0 /\ part[1].t = "word" /\ part[1].v = "json"
             THEN Tail(part) ELSE part
    ELSE tokens

\* json.loads: the value, or JSONDecodeError when the text is not exactly
\* one JSON value.
json_loads(tokens) ==
    IF Len(tokens) = 1 /\ tokens[1].t \notin {"fence", "word"}
    THEN Returned(tokens[1]) ELSE Raised("JSONDecodeError")

\* float(value), in hundredths.
py_float(value) ==
    CASE value.t = "num" -> Returned(value.v)
      [] value.t = "nan" -> Returned(NaN)
      [] value.t = "bool" -> Returned(IF value.v THEN 100 ELSE 0)
      [] value.t = "str" ->
             IF value.v = "0.9" THEN Returned(90)
             ELSE IF value.v = "nan" THEN Returned(NaN)
             ELSE Raised("ValueError")
      [] OTHER -> Raised("TypeError")

\* Python's max(a, b) and min(a, b) on floats: every comparison with nan is
\* false, so the first argument is kept.
PyMax(a, b) == IF a # NaN /\ b # NaN /\ b > a THEN b ELSE a
PyMin(a, b) == IF a # NaN /\ b # NaN /\ b < a THEN b ELSE a

\* A mutant of Sanitize: a string of the backend is passed on unchecked.
Sanitize_StringsPass(value, valid, default) ==
    IF value.t = "str" THEN value.v ELSE default

\* "value not in VALID_...": the value itself when it is a listed string.
Sanitize(value, valid, default) ==
    IF value.t = "str" /\ value.v \in valid THEN value.v ELSE default

\* What the generation backend may answer to the analysis prompt in a chat
\* turn: the call raises, the text is no JSON, or it is a JSON object.
AnalysisReplies ==
    {[kind |-> "error"],
     [kind |-> "text", text |-> <<WordTok("Sure")>>],
     [kind |-> "text",
      text |-> <<JObject([intent |-> JStr("question"), tone |-> JStr("excited"),
                          confidence |-> JNum(150)])>>]}

\* analyze_intent_and_tone: Raised("AnalysisError") stands for the
\* AnalysisError of the last except clause.
analyze_intent_and_tone(transcript, has_model, reply) ==
    IF ~has_model
    THEN Returned(IntentToneAnalysis(transcript, "casual_chat", "neutral", 50))
    ELSE IF IsBlank(transcript)
    THEN Returned(IntentToneAnalysis(transcript, "casual_chat", "neutral", 0))
    ELSE IF reply.kind = "error"
    THEN Raised("AnalysisError")
    ELSE LET parsed == json_loads(StripFence(reply.text))
         IN  IF ~parsed.ok
             THEN Returned(IntentToneAnalysis(transcript, "casual_chat", "neutral", 30))
             ELSE IF parsed.value.t # "object"
             THEN Raised("AnalysisError")
             ELSE LET fields     == parsed.value.fields
                      intent     == Sanitize(DictGet(fields, "intent", JStr("casual_chat")),
                                             VALID_INTENTS, "casual_chat")
                      tone       == Sanitize(DictGet(fields, "tone", JStr("neutral")),
                                             VALID_TONES, "neutral")
                      confidence == py_float(DictGet(fields, "confidence", JNum(70)))
                  IN  IF ~confidence.ok
                      THEN Raised("AnalysisError")
                      ELSE Returned(IntentToneAnalysis(transcript, intent, tone,
                                        PyMin(PyMax(confidence.value, 0), 100)))

\* round(x, 2) on a number in thousandths: the nearest hundredth, a tie
\* going to the even one.
round2(x) ==
    LET lower == (x \div 10) * 10
        rest  == x - lower
    IN  IF rest < 5 THEN lower
        ELSE IF rest > 5 THEN lower + 10
        ELSE IF (lower \div 10) % 2 = 0 THEN lower ELSE lower + 10

\* The tone_adjustments table and its .get default, in thousandths.
tone_adjustments(tone) ==
    CASE tone = "happy" -> [stability |-> -100, style |-> 100]
      [] tone = "sad" -> [stability |-> 150, style |-> -50]
      [] tone = "frustrated" -> [stability |-> 100, style |-> 0]
      [] tone = "neutral" -> [stability |-> 0, style |-> 0]
      [] tone = "anxious" -> [stability |-> 150, style |-> -100]
      [] tone = "excited" -> [stability |-> -150, style |-> 150]
      [] OTHER -> [stability |-> 0, style |-> 0]

\* A mutant of compute_voice_settings: the venting adjustment without its cap.
compute_voice_settings_VentingUncapped(persona, analysis) ==
    LET adjustments == tone_adjustments(analysis.tone)
        stability0  == Max(100, Min(900, persona.base_stability + adjustments.stability))
        style       == Max(0, Min(500, persona.base_style + adjustments.style))
        stability   == IF analysis.intent = "venting" THEN stability0 + 50
                       ELSE IF analysis.intent = "question" THEN Max(stability0, 500)
                       ELSE stability0
    IN  [stability |-> round2(stability),
         similarity_boost |-> round2(persona.base_similarity_boost),
         style |-> round2(style)]

\* A mutant of compute_voice_settings: the intent adjustment before the clamp.
compute_voice_settings_IntentBeforeClamp(persona, analysis) ==
    LET adjustments == tone_adjustments(analysis.tone)
        sum         == persona.base_stability + adjustments.stability
        stability0  == IF analysis.intent = "venting" THEN sum + 50
                       ELSE IF analysis.intent = "question" THEN Max(sum, 500)
                       ELSE sum
        stability   == Max(100, Min(900, stability0))
        style       == Max(0, Min(500, persona.base_style + adjustments.style))
    IN  [stability |-> round2(stability),
         similarity_boost |-> round2(persona.base_similarity_boost),
         style |-> round2(style)]

\* compute_voice_settings
compute_voice_settings(persona, analysis) ==
    LET adjustments == tone_adjustments(analysis.tone)
        stability0  == Max(100, Min(900, persona.base_stability + adjustments.stability))
        style       == Max(0, Min(500, persona.base_style + adjustments.style))
        stability   == IF analysis.intent = "venting" THEN Min(stability0 + 50, 900)
                       ELSE IF analysis.intent = "question" THEN Max(stability0, 500)
                       ELSE stability0
    IN  [stability |-> round2(stability),
         similarity_boost |-> round2(persona.base_similarity_boost),
         style |-> round2(style)]

-----------------------------------------------------------------------------
(* custom_responses.py: CustomResponseSelector *)

PhraseCategories ==
    {"active_listening", "neutral_acknowledgments", "validating_responses",
     "positive_acknowledgments", "excited_celebratory", "thoughtful_pauses",
     "encouraging_continuation", "reflective_acknowledgments", "empathetic_sounds"}

\* self.phrases before _load_phrases, and after it when the asset is missing.
EmptyCatalog == [c \in PhraseCategories |-> << >>]

\* self.phrases after _load_phrases read a customResponses.txt with these
\* lines under its nine headers.
LoadedCatalog ==
    [c \in PhraseCategories |->
       CASE c = "active_listening" -> <<"I hear you", "Mm-hmm">>
         [] c = "neutral_acknowledgments" -> <<"I see">>
         [] c = "validating_responses" -> <<"That makes sense">>
         [] c = "positive_acknowledgments" -> <<"That's great">>
         [] c = "excited_celebratory" -> <<"How exciting">>
         [] c = "thoughtful_pauses" -> <<"Take your time">>
         [] c = "encouraging_continuation" -> <<"Tell me more">>
         [] c = "reflective_acknowledgments" -> <<"I understand">>
         [] OTHER -> <<"Oh">>]

\* The elements of a list.
Elems(seq) == {seq[i] : i \in 1..Len(seq)}

\* A mutant of categories_to_use: without the branches of the tones sad and
\* anxious.
categories_to_use_SadToIntent(tone, intent) ==
    IF tone = "frustrated" \/ intent = "venting"
    THEN <<"active_listening", "validating_responses", "thoughtful_pauses">>
    ELSE IF tone = "happy" THEN <<"positive_acknowledgments", "excited_celebratory">>
    ELSE IF tone = "excited" THEN <<"positive_acknowledgments", "excited_celebratory">>
    ELSE IF intent = "question"
    THEN <<"neutral_acknowledgments", "reflective_acknowledgments">>
    ELSE IF intent = "casual_chat"
    THEN <<"active_listening", "neutral_acknowledgments", "encouraging_continuation">>
    ELSE IF intent = "seeking_advice"
    THEN <<"reflective_acknowledgments", "neutral_acknowledgments", "validating_responses">>
    ELSE <<"active_listening", "neutral_acknowledgments">>

\* The categories_to_use chain of select_phrase.
categories_to_use(tone, intent) ==
    IF tone = "frustrated" \/ intent = "venting"
    THEN <<"active_listening", "validating_responses", "thoughtful_pauses">>
    ELSE IF tone = "happy" THEN <<"positive_acknowledgments", "excited_celebratory">>
    ELSE IF tone = "sad"
    THEN <<"active_listening", "validating_responses", "thoughtful_pauses">>
    ELSE IF tone = "anxious"
    THEN <<"active_listening", "validating_responses", "thoughtful_pauses">>
    ELSE IF tone = "excited" THEN <<"positive_acknowledgments", "excited_celebratory">>
    ELSE IF intent = "question"
    THEN <<"neutral_acknowledgments", "reflective_acknowledgments">>
    ELSE IF intent = "casual_chat"
    THEN <<"active_listening", "neutral_acknowledgments", "encouraging_continuation">>
    ELSE IF intent = "seeking_advice"
    THEN <<"reflective_acknowledgments", "neutral_acknowledgments", "validating_responses">>
    ELSE <<"active_listening", "neutral_acknowledgments">>

\* A mutant of select_phrase: without the final "I hear you".
select_phrase_NoFinalFallback(catalog, tone, intent) ==
    LET cats      == categories_to_use(tone, intent)
        available == UNION {Elems(DictGet(catalog, cats[i], << >>)) : i \in 1..Len(cats)}
    IN  IF available # {} THEN available
        ELSE Elems(catalog["active_listening"])

\* select_phrase: the phrases random.choice may return.
select_phrase(catalog, tone, intent) ==
    LET cats      == categories_to_use(tone, intent)
        available == UNION {Elems(DictGet(catalog, cats[i], << >>)) : i \in 1..Len(cats)}
    IN  IF available # {} THEN available
        ELSE IF Len(catalog["active_listening"]) > 0
        THEN Elems(catalog["active_listening"])
        ELSE {"I hear you"}

\* str.strip() on a text given as its pieces, "SP" a run of whitespace and
\* any other piece a run of text without whitespace at its ends.
py_strip(t) ==
    LET kept == {i \in 1..Len(t) : t[i] # "SP"}
    IN  IF kept = {} THEN << >>
        ELSE SubSeq(t, CHOOSE i \in kept : \A j \in kept : i <= j,
                       CHOOSE i \in kept : \A j \in kept : j <= i)

\* A text of one piece is that string; no catalog line is a text of several
\* pieces or the empty text.
InPhraseList(t, phrase_list) == Len(t) = 1 /\ t[1] \in phrase_list

\* What the generation backend may answer to the selection prompt: the call
\* raises, or it returns a text.
SelectionReplies ==
    {[kind |-> "error"], [kind |-> "text", text |-> <<"That's great">>]}

\* Every phrase a selection can come out with.
AllPhrases == UNION {Elems(LoadedCatalog[c]) : c \in PhraseCategories} \cup {"I hear you"}

\* A mutant of generate_response: the answer of the backend is taken whether
\* it is in the list or not.
generate_response_AnyAnswer(catalog, has_model, analysis, reply) ==
    IF ~has_model \/ reply.kind = "error"
    THEN select_phrase(catalog, analysis.tone, analysis.intent)
    ELSE LET selected_phrase == py_strip(reply.text)
         IN  IF Len(selected_phrase) # 1
             THEN select_phrase(catalog, analysis.tone, analysis.intent)
             ELSE {selected_phrase[1]}

\* generate_response: the phrases it may return.
generate_response(catalog, has_model, analysis, reply) ==
    LET available_phrases == UNION {Elems(catalog[c]) : c \in PhraseCategories}
    IN  IF ~has_model \/ reply.kind = "error"
        THEN select_phrase(catalog, analysis.tone, analysis.intent)
        ELSE LET selected_phrase == py_strip(reply.text)
             IN  IF ~InPhraseList(selected_phrase, available_phrases)
                 THEN select_phrase(catalog, analysis.tone, analysis.intent)
                 ELSE {selected_phrase[1]}

-----------------------------------------------------------------------------
(* The persona store operations, as the routes of main.py call them *)

\* The request slots of the model.
Turns == {"t1", "t2"}

StoreIds == {"default-cheerful", "no-such-id"} \cup {Uuids[i] : i \in 1..MaxCreates}

\* Keyword arguments handed to create and to update.
CreateArgs ==
    {[name |-> "Calm", base_prompt |-> "calm prompt"],
     [name |-> "Coach", base_prompt |-> "coach prompt", voice_id |-> "voice-2",
      base_stability |-> 0, base_similarity_boost |-> 900, base_style |-> 500]}

UpdateKwargs ==
    {[name |-> "Renamed"],
     [voice_id |-> "voice-3", base_stability |-> 900],
     [is_default |-> TRUE, id |-> "hijack"],
     [is_default |-> FALSE, nickname |-> "zz"]}

\* No persona-route request has arrived yet.
NoRequests == [inflight |-> << >>, served |-> << >>]

\* What the last store call was, whether it removed the last persona, and
\* what it returned.
StoreOp(op, emptied, seen) == [op |-> op, emptied |-> emptied, seen |-> seen]

\* The turns that hold the persona object stored under id see it change
\* (the store hands out the object itself, not a copy).
Aliased(t, id) ==
    /\ turns[t].alias
    /\ Len(turns[t].persona) = 1
    /\ turns[t].persona[1].id = id

StoreCreate(args) ==
    /\ nextId < MaxCreates
    /\ personas' = DictSet(personas, NewPersona(Uuids[nextId + 1], args))
    /\ nextId' = nextId + 1
    /\ UNCHANGED <<text, result, turns, resources, phrases, config, prev>>

StoreUpdate(id, kwargs) ==
    /\ IF ~HasKey(personas, id)
       THEN UNCHANGED <<personas, turns>>
       ELSE LET persona == UpdatedPersona(personas[KeyIndex(personas, id)], kwargs)
            IN  /\ personas' = [personas EXCEPT ![KeyIndex(personas, id)] = persona]
                /\ turns' = [t \in Turns |->
                               IF Aliased(t, id)
                               THEN [turns[t] EXCEPT !.persona = <<persona>>]
                               ELSE turns[t]]
    /\ UNCHANGED <<text, result, nextId, resources, phrases, config, prev>>

StoreDelete(id) ==
    /\ IF ~HasKey(personas, id)
       THEN UNCHANGED <<personas, turns>>
       ELSE /\ personas' = AfterDelete(personas, id)
            /\ turns' = [t \in Turns |->
                           IF Aliased(t, id)
                           THEN [turns[t] EXCEPT !.alias = FALSE]
                           ELSE turns[t]]
    /\ UNCHANGED <<text, result, nextId, resources, phrases, config, prev>>

StoreGet(id) ==
    UNCHANGED <<text, result, personas, nextId, turns, resources, phrases, config, prev, requests>>

StoreGetAll ==
    UNCHANGED <<text, result, personas, nextId, turns, resources, phrases, config, prev, requests>>

StoreGetDefault ==
    /\ personas' = store_get_default(personas).store
    /\ UNCHANGED <<text, result, nextId, turns, resources, phrases, config, prev, requests>>

\* The store calls with what each returns recorded in lastOp.
StoreNext ==
    \/ \E args \in CreateArgs :
           /\ StoreCreate(args) /\ UNCHANGED requests
           /\ lastOp' = StoreOp("create", FALSE, store_get(personas', Uuids[nextId']))
    \/ \E id \in StoreIds, kwargs \in UpdateKwargs :
           /\ StoreUpdate(id, kwargs) /\ UNCHANGED requests
           /\ lastOp' = StoreOp("update", FALSE, store_get(personas', id))
    \/ \E id \in StoreIds :
           /\ StoreDelete(id) /\ UNCHANGED requests
           /\ lastOp' = StoreOp(IF HasKey(personas, id) THEN "delete" ELSE "delete_missing",
                                HasKey(personas, id) /\ Len(personas) = 1, << >>)
    \/ \E id \in StoreIds :
           /\ StoreGet(id)
           /\ lastOp' = StoreOp("get", lastOp.emptied, store_get(personas, id))
    \/ /\ StoreGetAll
       /\ lastOp' = StoreOp("get_all", lastOp.emptied, personas)
    \/ /\ StoreGetDefault
       /\ lastOp' = StoreOp("get_default", lastOp.emptied,
                            <<store_get_default(personas).persona>>)

-----------------------------------------------------------------------------
(* main.py: chat_endpoint *)

\* What transcribe_audio may return for a turn.
Transcripts == {<<"SP">>, <<"hello">>, <<"kill", "myself">>, <<"overdose">>}

\* The persona_id form field of a request.
PersonaIdInputs == {NoneVal, "uuid-1"}

IdleTurn ==
    [pc |-> "idle", persona_id |-> NoneVal, persona |-> << >>, alias |-> FALSE,
     transcript |-> << >>, safety |-> << >>, supportive_text |-> << >>,
     analysis |-> << >>, ai_text |-> << >>, calls |-> << >>, synth |-> << >>,
     response |-> << >>, error |-> ""]

ChatResponse(audio, transcript, intent, tone, response_text, confidence, is_safety_response, safety_category) ==
    [audio_base64 |-> audio, transcript |-> transcript, intent |-> intent,
     tone |-> tone, response_text |-> response_text, confidence |-> confidence,
     is_safety_response |-> is_safety_response, safety_category |-> safety_category]

\* "Get persona (default if not specified)": the store afterwards, the
\* persona, and the store calls made.
ResolvePersona(ps, persona_id) ==
    IF Truthy(persona_id) /\ Len(store_get(ps, persona_id)) = 1
    THEN [store |-> ps, persona |-> store_get(ps, persona_id)[1],
          calls |-> <<"persona_store.get">>]
    ELSE [store |-> store_get_default(ps).store,
          persona |-> store_get_default(ps).persona,
          calls |-> IF Truthy(persona_id)
                    THEN <<"persona_store.get", "persona_store.get_default">>
                    ELSE <<"persona_store.get_default">>]

\* The reply to an empty transcription.
EmptyTranscriptResponse ==
    ChatResponse("", << >>, "casual_chat", "neutral",
                 <<"I didn't quite catch that. Could you say that again?">>, 0,
                 FALSE, NoneVal)

\* A mutant of SafetyCheck: a persona named "Coach" switches the gate off.
SafetyCheck_PersonaGated(tr) ==
    IF tr.persona[1].name = "Coach" THEN EmptyTextResult
    ELSE check_content_safety(tr.transcript)

\* "safety_result = check_content_safety(transcript)"
SafetyCheck(tr) == check_content_safety(tr.transcript)

\* A mutant of safety_voice_settings: the persona's base values.
SafetyVoiceSettings_FromPersona(persona) ==
    [stability |-> persona.base_stability,
     similarity_boost |-> persona.base_similarity_boost,
     style |-> persona.base_style]

\* The safety_voice_settings literal; the persona in scope is not read.
SafetyVoiceSettings(persona) ==
    [stability |-> 700, similarity_boost |-> 750, style |-> 100]

\* An exception inside the try block ends the request with HTTP 500.
Fail(tr, error) == [tr EXCEPT !.pc = "failed", !.error = error]

\* "if safety_result.is_harmful": up to the call of synthesize_speech.
SafetyBranch(tr, safety_result) ==
    LET supportive == get_supportive_response(safety_result.category)
    IN  IF ~supportive.ok
        THEN Fail([tr EXCEPT !.safety = <<safety_result>>,
                             !.calls = @ \o <<"check_content_safety",
                                              "get_supportive_response">>],
                  supportive.value[1])
        ELSE [tr EXCEPT !.safety = <<safety_result>>,
                        !.supportive_text = supportive.value,
                        !.calls = @ \o <<"check_content_safety",
                                         "get_supportive_response",
                                         "synthesize_speech">>,
                        !.synth = Append(@, [text |-> supportive.value,
                                             voice_id |-> tr.persona[1].voice_id,
                                             voice_settings |->
                                                 SafetyVoiceSettings(tr.persona[1])]),
                        !.pc = "synth_safety"]

\* A mutant of AfterTranscript: the gate runs only after the classifier.
AfterTranscript_GateSkipped(tr0, transcript) ==
    LET tr == [tr0 EXCEPT !.transcript = transcript]
    IN  IF IsBlank(transcript)
        THEN [tr EXCEPT !.response = <<EmptyTranscriptResponse>>, !.pc = "done"]
        ELSE [tr EXCEPT !.calls = @ \o <<"analyze_intent_and_tone">>, !.pc = "analyze"]

\* From the return of transcribe_audio to the next await.
AfterTranscript(tr0, transcript) ==
    LET tr == [tr0 EXCEPT !.transcript = transcript]
    IN  IF IsBlank(transcript)
        THEN [tr EXCEPT !.response = <<EmptyTranscriptResponse>>, !.pc = "done"]
        ELSE IF SafetyCheck(tr).is_harmful
        THEN SafetyBranch(tr, SafetyCheck(tr))
        ELSE [tr EXCEPT !.safety = <<SafetyCheck(tr)>>,
                        !.calls = @ \o <<"check_content_safety",
                                         "analyze_intent_and_tone">>,
                        !.pc = "analyze"]

\* synthesize_speech: the audio it may return; "TTSError" when it raises.
\* Without an ElevenLabs client it returns dummy audio.
SynthOutcomes == IF config.elevenlabs THEN {"audio", "TTSError"} ELSE {"dummy_audio"}

\* The ChatResponse of the safety branch.
SafetyResponse(tr, audio) ==
    ChatResponse(audio, tr.transcript, "seeking_advice",
                 IF tr.safety[1].category \in {"suicide_self_harm", "self_harm"}
                 THEN "anxious" ELSE "frustrated",
                 tr.supportive_text, tr.safety[1].confidence, TRUE,
                 tr.safety[1].category)

\* The ChatResponse of the normal branch.
NormalResponse(tr, audio) ==
    ChatResponse(audio, tr.analysis[1].transcript, tr.analysis[1].intent,
                 tr.analysis[1].tone, tr.ai_text, tr.analysis[1].confidence,
                 FALSE, NoneVal)

\* The request arrives and waits for "await file.read()".
ChatBegin(t, persona_id) ==
    /\ turns[t].pc = "idle"
    /\ turns' = [turns EXCEPT ![t] = [@ EXCEPT !.pc = "lookup",
                                               !.persona_id = persona_id]]
    /\ UNCHANGED <<text, result, personas, nextId, lastOp, resources, phrases, config, prev, requests>>

\* The persona is resolved and transcribe_audio is called.
ChatLookup(t) ==
    /\ turns[t].pc = "lookup"
    /\ LET r == ResolvePersona(personas, turns[t].persona_id)
       IN  /\ personas' = r.store
           /\ turns' = [turns EXCEPT ![t] =
                          [@ EXCEPT !.persona = <<r.persona>>, !.alias = TRUE,
                                    !.calls = @ \o r.calls \o <<"transcribe_audio">>,
                                    !.pc = "stt"]]
    /\ UNCHANGED <<text, result, nextId, lastOp, resources, phrases, config, prev, requests>>

\* transcribe_audio raises STTError.
ChatTranscribeFails(t) ==
    /\ turns[t].pc = "stt"
    /\ turns' = [turns EXCEPT ![t] = Fail(@, "STTError")]
    /\ UNCHANGED <<text, result, personas, nextId, lastOp, resources, phrases, config, prev, requests>>

\* transcribe_audio returns and the turn runs to its next await.
ChatTranscribed(t, transcript) ==
    /\ turns[t].pc = "stt"
    /\ turns' = [turns EXCEPT ![t] = AfterTranscript(@, transcript)]
    /\ UNCHANGED <<text, result, personas, nextId, lastOp, resources, phrases, config, prev, requests>>

\* synthesize_speech of the supportive text returns or raises.
ChatSafetySynthesized(t, audio) ==
    /\ turns[t].pc = "synth_safety"
    /\ audio \in SynthOutcomes
    /\ turns' = [turns EXCEPT ![t] =
                   IF audio = "TTSError" THEN Fail(@, "TTSError")
                   ELSE [@ EXCEPT !.response = <<SafetyResponse(turns[t], audio)>>,
                                  !.pc = "done"]]
    /\ UNCHANGED <<text, result, personas, nextId, lastOp, resources, phrases, config, prev, requests>>

\* analyze_intent_and_tone returns or raises; on return the turn goes on to
\* the weather / time section and its awaits.
ChatAnalyzed(t, reply) ==
    /\ turns[t].pc = "analyze"
    /\ LET a == analyze_intent_and_tone(turns[t].transcript, config.vertex, reply)
       IN  turns' = [turns EXCEPT ![t] =
                       IF a.ok THEN [@ EXCEPT !.analysis = <<a.value>>, !.pc = "context"]
                       ELSE Fail(@, "AnalysisError")]
    /\ UNCHANGED <<text, result, personas, nextId, lastOp, resources, phrases, config, prev, requests>>

\* The weather / time section ends and generate_response is called.
\* is_weather_query and is_time_query are read as the definitions services.py
\* carries commented out; the data they fetch only reaches the prompt of
\* generate_response.
ChatContext(t) ==
    /\ turns[t].pc = "context"
    /\ turns' = [turns EXCEPT ![t] = [@ EXCEPT !.calls = Append(@, "generate_response"),
                                               !.pc = "select"]]
    /\ UNCHANGED <<text, result, personas, nextId, lastOp, resources, phrases, config, prev, requests>>

\* generate_response returns; the voice settings are computed and
\* synthesize_speech is called.
ChatSelected(t, reply, phrase) ==
    /\ turns[t].pc = "select"
    /\ phrase \in generate_response(phrases, config.vertex, turns[t].analysis[1], reply)
    /\ turns' = [turns EXCEPT ![t] =
                   [@ EXCEPT !.ai_text = <<phrase>>,
                             !.calls = @ \o <<"compute_voice_settings", "synthesize_speech">>,
                             !.synth = Append(@, [text |-> <<phrase>>,
                                                  voice_id |-> turns[t].persona[1].voice_id,
                                                  voice_settings |->
                                                      compute_voice_settings(
                                                          turns[t].persona[1],
                                                          turns[t].analysis[1])]),
                             !.pc = "synth"]]
    /\ UNCHANGED <<text, result, personas, nextId, lastOp, resources, phrases, config, prev, requests>>

\* synthesize_speech of the selected phrase returns or raises.
ChatSynthesized(t, audio) ==
    /\ turns[t].pc = "synth"
    /\ audio \in SynthOutcomes
    /\ turns' = [turns EXCEPT ![t] =
                   IF audio = "TTSError" THEN Fail(@, "TTSError")
                   ELSE [@ EXCEPT !.response = <<NormalResponse(turns[t], audio)>>,
                                  !.pc = "done"]]
    /\ UNCHANGED <<text, result, personas, nextId, lastOp, resources, phrases, config, prev, requests>>

\* What a request came out with: the persona it worked with, its transcript,
\* the gate's verdict and supportive text, and the response if one was sent.
Outcome(tr) ==
    [persona |-> tr.persona, transcript |-> tr.transcript, safety |-> tr.safety,
     supportive_text |-> tr.supportive_text, response |-> tr.response]

\* The request is over (response sent or HTTP 500 raised); the next request
\* is served.  Its outcome may be the one kept for comparison.
ChatFinish(t, keep) ==
    /\ turns[t].pc \in {"done", "failed"}
    /\ turns' = [turns EXCEPT ![t] = IdleTurn]
    /\ prev' = IF keep THEN <<Outcome(turns[t])>> ELSE prev
    /\ UNCHANGED <<text, result, personas, nextId, lastOp, resources, phrases, config, requests>>

\* The requests the chat specification runs one after the other.
SerialTurns == {"t1"}

ChatNext ==
    \/ \E t \in SerialTurns, keep \in BOOLEAN : ChatFinish(t, keep)
    \/ \E t \in SerialTurns, persona_id \in PersonaIdInputs : ChatBegin(t, persona_id)
    \/ \E t \in SerialTurns : ChatLookup(t)
    \/ \E t \in SerialTurns : ChatTranscribeFails(t)
    \/ \E t \in SerialTurns, transcript \in Transcripts : ChatTranscribed(t, transcript)
    \/ \E t \in SerialTurns, audio \in {"audio", "dummy_audio", "TTSError"} :
           ChatSafetySynthesized(t, audio)
    \/ \E t \in SerialTurns, reply \in AnalysisReplies : ChatAnalyzed(t, reply)
    \/ \E t \in SerialTurns : ChatContext(t)
    \/ \E t \in SerialTurns, reply \in SelectionReplies, phrase \in AllPhrases :
           ChatSelected(t, reply, phrase)
    \/ \E t \in SerialTurns, audio \in {"audio", "dummy_audio", "TTSError"} :
           ChatSynthesized(t, audio)

-----------------------------------------------------------------------------
(* Specifications *)

\* The words of the input texts.
Vocab ==
    {"kill", "myself", "hurt", "them", "jews", "beats", "me", "overdose",
     "hello", "SP", "KILL"}

Texts == UNION {[1..n -> Vocab] : n \in 0..MaxWords}

\* The persona routes' inputs while turns are in flight.
TurnCreateArgs ==
    {[name |-> "Coach", base_prompt |-> "coach prompt", voice_id |-> "voice-2",
      base_stability |-> 0, base_similarity_boost |-> 900, base_style |-> 500]}
TurnUpdateKwargs == {[voice_id |-> "voice-3", base_stability |-> 900]}
TurnStoreIds == {"default-cheerful", "uuid-1"}

\* The state after the module-level singletons are constructed.
ProgramInit ==
    /\ requests = NoRequests
    /\ personas = initialize_default_persona(<< >>)
    /\ nextId = 0
    /\ lastOp = StoreOp("init", FALSE, << >>)
    /\ turns = [t \in Turns |-> IdleTurn]
    /\ text = << >>
    /\ result = << >>
    /\ prev = << >>

\* The environments the process may start in: everything configured and
\* loaded; nothing configured with every asset missing; a resource document
\* with an incomplete helpline and nothing else configured.
Environments ==
    {[resources |-> file_resources, phrases |-> LoadedCatalog,
      config |-> [vertex |-> TRUE, elevenlabs |-> TRUE]],
     [resources |-> default_resources, phrases |-> EmptyCatalog,
      config |-> [vertex |-> FALSE, elevenlabs |-> FALSE]],
     [resources |-> sparse_resources, phrases |-> EmptyCatalog,
      config |-> [vertex |-> FALSE, elevenlabs |-> FALSE]]}

\* The chat pipeline and the persona routes.
Init ==
    /\ ProgramInit
    /\ \E env \in Environments :
           /\ resources = env.resources
           /\ phrases = env.phrases
           /\ config = env.config

\* The persona routes other requests call while turns are in flight.
TurnStoreNext ==
    \/ \E args \in TurnCreateArgs :
           nextId < MaxTurnCreates /\ StoreCreate(args) /\ UNCHANGED <<lastOp, requests>>
    \/ \E id \in TurnStoreIds, kwargs \in TurnUpdateKwargs :
           StoreUpdate(id, kwargs) /\ UNCHANGED <<lastOp, requests>>
    \/ \E id \in TurnStoreIds : StoreDelete(id) /\ UNCHANGED <<lastOp, requests>>

Next == ChatNext \/ TurnStoreNext

Spec == Init /\ [][Next]_vars

\* The persona store on its own.
StoreInit ==
    /\ ProgramInit
    /\ resources = default_resources
    /\ phrases = LoadedCatalog
    /\ config = [vertex |-> TRUE, elevenlabs |-> TRUE]

SpecStore == StoreInit /\ [][StoreNext]_vars

\* test_safety.py: the test_cases table, each sentence as its words.
test_cases ==
    <<[text |-> <<"I", "feel", "happy", "today!">>,
       harmful |-> FALSE, category |-> "none"],
      [text |-> <<"I", "want", "to", "kill", "myself">>,
       harmful |-> TRUE, category |-> "suicide_self_harm"],
      [text |-> <<"I", "want", "to", "hurt", "myself">>,
       harmful |-> TRUE, category |-> "self_harm"],
      [text |-> <<"My", "husband", "beats", "me">>,
       harmful |-> TRUE, category |-> "abuse"],
      [text |-> <<"I", "want", "to", "kill", "everyone">>,
       harmful |-> TRUE, category |-> "violence"],
      [text |-> <<"I", "am", "addicted", "to", "drugs", "and", "cannot", "stop", "using">>,
       harmful |-> TRUE, category |-> "substance_abuse"],
      [text |-> <<"How", "are", "you", "doing", "today?">>,
       harmful |-> FALSE, category |-> "none"]>>

\* The sentences test_safety.py hands to check_content_safety.
TestSentences == {test_cases[i].text : i \in DOMAIN test_cases}

\* check_content on every text of the bounded input set and on the test
\* sentences.
GateInit ==
    /\ requests = NoRequests
    /\ personas = initialize_default_persona(<< >>)
    /\ nextId = 0
    /\ lastOp = StoreOp("init", FALSE, << >>)
    /\ turns = [t \in Turns |-> IdleTurn]
    /\ text \in Texts \cup TestSentences
    /\ result = << >>
    /\ prev = << >>
    /\ resources = default_resources
    /\ phrases = LoadedCatalog
    /\ config = [vertex |-> TRUE, elevenlabs |-> TRUE]

GateCheck ==
    /\ result = << >>
    /\ result' = <<check_content_safety(text)>>
    /\ UNCHANGED <<text, personas, nextId, lastOp, turns, resources, phrases, config, prev, requests>>

GateNext == GateCheck

SpecGate == GateInit /\ [][GateNext]_vars


\* The fields a JSON object of the backend may carry: each absent (<< >>) or
\* present with a value of some type.
IntentInputs == {<< >>, <<JStr("venting")>>, <<JStr("bogus")>>, <<JNum(5)>>, <<JNull>>}
ToneInputs == {<< >>, <<JStr("sad")>>, <<JStr("angry")>>, <<JArray>>}
ConfidenceInputs ==
    {<< >>, <<JNum(0 - 50)>>, <<JNum(0)>>, <<JNum(70)>>, <<JNum(150)>>, <<JNaN>>,
     <<JStr("high")>>, <<JStr("0.9")>>, <<JNull>>, <<JBool(TRUE)>>}

\* The JSON object with the given fields.
ObjectOf(intent, tone, confidence) ==
    LET keys == {k \in {"intent", "tone", "confidence"} :
                    \/ k = "intent" /\ intent # << >>
                    \/ k = "tone" /\ tone # << >>
                    \/ k = "confidence" /\ confidence # << >>}
    IN  JObject([k \in keys |-> CASE k = "intent" -> intent[1]
                                  [] k = "tone" -> tone[1]
                                  [] OTHER -> confidence[1]])

\* What analysis_model.generate_content may answer: the call raises, or a
\* text is received: a JSON object bare or inside a code fence, a fence with
\* no payload, prose, or JSON that is not an object.
AnalyzeReplies ==
    {[kind |-> "error"]}
    \cup {[kind |-> "text", text |-> <<ObjectOf(i, t, c)>>] :
             i \in IntentInputs, t \in ToneInputs, c \in ConfidenceInputs}
    \cup {[kind |-> "text", text |-> tokens] : tokens \in
             {<<FenceTok, WordTok("json"), ObjectOf(<<JStr("venting")>>, <<JStr("sad")>>, <<JNum(70)>>), FenceTok>>,
              <<FenceTok, ObjectOf(<<JStr("bogus")>>, << >>, <<JNum(150)>>), FenceTok>>,
              <<FenceTok>>, <<FenceTok, FenceTok>>, <<FenceTok, WordTok("json"), FenceTok>>,
              << >>, <<WordTok("Sure")>>,
              <<WordTok("json"), ObjectOf(<<JStr("venting")>>, <<JStr("sad")>>, <<JNum(70)>>)>>,
              <<ObjectOf(<<JStr("venting")>>, <<JStr("sad")>>, <<JNum(70)>>), WordTok("thanks")>>,
              <<JArray>>, <<JStr("venting")>>, <<JNum(1)>>, <<JNull>>}}

\* The transcripts handed to analyze_intent_and_tone.
AnalyzeTranscripts == {<< >>, <<"SP">>, <<"hello">>}

\* analyze_intent_and_tone on its own: a transcript, a backend configured or
\* not, and one call.
AnalyzeInit ==
    /\ requests = NoRequests
    /\ personas = initialize_default_persona(<< >>)
    /\ nextId = 0
    /\ lastOp = StoreOp("init", FALSE, << >>)
    /\ turns = [t \in Turns |-> IdleTurn]
    /\ text \in AnalyzeTranscripts
    /\ result = << >>
    /\ prev = << >>
    /\ resources = default_resources
    /\ phrases = LoadedCatalog
    /\ config \in {[vertex |-> b, elevenlabs |-> TRUE] : b \in BOOLEAN}

AnalyzeCall(reply) ==
    /\ result = << >>
    /\ result' = <<[reply |-> reply,
                    ret |-> analyze_intent_and_tone(text, config.vertex, reply)]>>
    /\ UNCHANGED <<text, personas, nextId, lastOp, turns, resources, phrases, config, prev, requests>>

AnalyzeNext == \E reply \in AnalyzeReplies : AnalyzeCall(reply)

SpecAnalyze == AnalyzeInit /\ [][AnalyzeNext]_vars

-----------------------------------------------------------------------------
(* compute_voice_settings on its own *)

\* The base values a persona may carry: every hundredth from 0.00 to 1.00,
\* and values between two hundredths.  None is half way between two
\* hundredths, where the binary value of the float decides the rounding.
VoiceBaseValues ==
    {10 * h : h \in 0..100} \cup {4, 96, 453, 496, 853, 907, 996}

\* The base_similarity_boost values of the personas.
VoiceSimilarityValues == {750, 754}

\* The tones and intents of an analysis, the valid ones and one of each that
\* is in no table.
VoiceTones == VALID_TONES \cup {"angry"}
VoiceIntents == VALID_INTENTS \cup {"smalltalk"}

\* The persona fields compute_voice_settings reads.
VoicePersona(stability, similarity_boost, style) ==
    [base_stability |-> stability, base_similarity_boost |-> similarity_boost,
     base_style |-> style]

VoiceInit ==
    /\ requests = NoRequests
    /\ personas = initialize_default_persona(<< >>)
    /\ nextId = 0
    /\ lastOp = StoreOp("init", FALSE, << >>)
    /\ turns = [t \in Turns |-> IdleTurn]
    /\ text = << >>
    /\ result = << >>
    /\ prev = << >>
    /\ resources = default_resources
    /\ phrases = LoadedCatalog
    /\ config = [vertex |-> TRUE, elevenlabs |-> TRUE]

\* One call of compute_voice_settings.
VoiceCall(persona, analysis) ==
    /\ result' = <<[persona |-> persona, analysis |-> analysis,
                    settings |-> compute_voice_settings(persona, analysis)]>>
    /\ UNCHANGED <<text, personas, nextId, lastOp, turns, resources, phrases, config, prev, requests>>

VoiceNext ==
    /\ result = << >>
    /\ \E stability \in VoiceBaseValues, style \in VoiceBaseValues,
          similarity_boost \in VoiceSimilarityValues,
          tone \in VoiceTones, intent \in VoiceIntents :
           VoiceCall(VoicePersona(stability, similarity_boost, style),
                     IntentToneAnalysis(<<"hello">>, intent, tone, 70))

SpecVoice == VoiceInit /\ [][VoiceNext]_vars

-----------------------------------------------------------------------------
(* generate_response and select_phrase on their own *)

\* self.phrases after _load_phrases read a file that has lines only under
\* the header of category 4.
PartialCatalog == [EmptyCatalog EXCEPT !["positive_acknowledgments"] = <<"That's great">>]

\* self.phrases after _load_phrases read a file that has lines only under
\* the header of category 1.
ListeningCatalog == [EmptyCatalog EXCEPT !["active_listening"] = <<"Mm-hmm">>]

PhraseCatalogs == {LoadedCatalog, PartialCatalog, ListeningCatalog, EmptyCatalog}

\* What the backend may answer to the selection prompt: the call raises, or
\* response.text.strip() is a listed phrase, a text that is no listed phrase,
\* or the empty string.
PhraseReplies ==
    {[kind |-> "error"], [kind |-> "text", text |-> <<"That's great">>],
     [kind |-> "text", text |-> <<"SP", "That's great", "SP">>],
     [kind |-> "text", text |-> <<"That's great", "SP", "I see">>],
     [kind |-> "text", text |-> <<"Sure thing">>],
     [kind |-> "text", text |-> <<"SP">>], [kind |-> "text", text |-> << >>]}

\* A call that picks from a set of phrases with random.choice returns one of
\* them; random.choice of an empty list raises IndexError.
ChoiceOutcomes(choices) ==
    IF choices = {} THEN {Raised("IndexError")} ELSE {Returned(p) : p \in choices}

PhraseInit ==
    /\ requests = NoRequests
    /\ personas = initialize_default_persona(<< >>)
    /\ nextId = 0
    /\ lastOp = StoreOp("init", FALSE, << >>)
    /\ turns = [t \in Turns |-> IdleTurn]
    /\ text = << >>
    /\ result = << >>
    /\ prev = << >>
    /\ resources = default_resources
    /\ phrases \in PhraseCatalogs
    /\ config \in {[vertex |-> b, elevenlabs |-> TRUE] : b \in BOOLEAN}

\* generate_response(transcript, persona, analysis)
GenerateCall(tone, intent, reply) ==
    /\ \E ret \in ChoiceOutcomes(generate_response(phrases, config.vertex,
                      IntentToneAnalysis(<<"hello">>, intent, tone, 70), reply)) :
           result' = <<[op |-> "generate_response", tone |-> tone, intent |-> intent,
                        reply |-> reply, ret |-> ret]>>
    /\ UNCHANGED <<text, personas, nextId, lastOp, turns, resources, phrases, config, prev, requests>>

\* custom_response_selector.select_phrase(tone, intent)
SelectCall(tone, intent) ==
    /\ \E ret \in ChoiceOutcomes(select_phrase(phrases, tone, intent)) :
           result' = <<[op |-> "select_phrase", tone |-> tone, intent |-> intent,
                        reply |-> [kind |-> "none"], ret |-> ret]>>
    /\ UNCHANGED <<text, personas, nextId, lastOp, turns, resources, phrases, config, prev, requests>>

PhraseNext ==
    /\ result = << >>
    /\ \/ \E tone \in VoiceTones, intent \in VoiceIntents, reply \in PhraseReplies :
             GenerateCall(tone, intent, reply)
       \/ \E tone \in VoiceTones, intent \in VoiceIntents : SelectCall(tone, intent)

SpecPhrase == PhraseInit /\ [][PhraseNext]_vars

-----------------------------------------------------------------------------
(* The safety checker from its construction on *)

\* _resources_cache = None, before _load_resources ran.
NotLoaded == NonObject("NoneType")

\* The texts handed to check_content.
CheckerTexts == TestSentences \cup {<< >>, <<"SP">>, <<"hello">>, <<"KILL", "myself">>}

\* What a call came out with.
CheckerCall(op, arg, ret) == [op |-> op, arg |-> arg, ret |-> ret]

CheckerInit ==
    /\ requests = NoRequests
    /\ personas = initialize_default_persona(<< >>)
    /\ nextId = 0
    /\ lastOp = StoreOp("init", FALSE, << >>)
    /\ turns = [t \in Turns |-> IdleTurn]
    /\ text = << >>
    /\ result = << >>
    /\ prev = << >>
    /\ resources = NotLoaded
    /\ phrases = LoadedCatalog
    /\ config = [vertex |-> TRUE, elevenlabs |-> TRUE]

\* ContentSafetyChecker(): __init__ with the file it finds; prev keeps the
\* file and the outcome.  When __init__ raises no checker exists.
Construct(file) ==
    /\ prev = << >>
    /\ prev' = <<CheckerCall("__init__", file, load_resources(file))>>
    /\ resources' = IF load_resources(file).ok THEN load_resources(file).value
                    ELSE resources
    /\ UNCHANGED <<text, result, personas, nextId, lastOp, turns, phrases, config, requests>>

\* The checker exists.
Constructed == prev # << >> /\ prev[1].ret.ok

\* Calls of reload_resources over a run.
MaxReloads == 2

\* checker.reload_resources() with the file it finds now: _load_resources
\* once more.  When open() or json.load() raises an exception that no except
\* clause names, the assignment to _resources_cache is not reached.
Reload(file) ==
    /\ Constructed
    /\ result = << >>
    /\ Len(prev) < 1 + MaxReloads
    /\ prev' = Append(prev, CheckerCall("reload_resources", file, load_resources(file)))
    /\ resources' = IF load_resources(file).ok THEN load_resources(file).value
                    ELSE resources
    /\ UNCHANGED <<text, result, personas, nextId, lastOp, turns, phrases, config, requests>>

\* checker.check_content(text)
CheckContentCall(t) ==
    /\ Constructed
    /\ result = << >>
    /\ text' = t
    /\ result' = <<CheckerCall("check_content", t, Returned(check_content(t)))>>
    /\ UNCHANGED <<personas, nextId, lastOp, turns, resources, phrases, config, prev, requests>>

\* checker.get_supportive_response(category)
SupportiveCall(category) ==
    /\ Constructed
    /\ result = << >>
    /\ result' = <<CheckerCall("get_supportive_response", category,
                               checker_get_supportive_response(category))>>
    /\ UNCHANGED <<text, personas, nextId, lastOp, turns, resources, phrases, config, prev, requests>>

\* checker.format_response_with_resources(category)
FormatCall(category) ==
    /\ Constructed
    /\ result = << >>
    /\ result' = <<CheckerCall("format_response_with_resources", category,
                               format_response_with_resources(category))>>
    /\ UNCHANGED <<text, personas, nextId, lastOp, turns, resources, phrases, config, prev, requests>>

CheckerNext ==
    \/ \E file \in ResourceFiles : Construct(file)
    \/ \E file \in ResourceFiles : Reload(file)
    \/ \E t \in CheckerTexts : CheckContentCall(t)
    \/ \E category \in HarmCategory : SupportiveCall(category)
    \/ \E category \in HarmCategory : FormatCall(category)

SpecChecker == CheckerInit /\ [][CheckerNext]_vars

-----------------------------------------------------------------------------
(* Concurrent turns on the event loop of uvicorn.run(app) *)

\* Where a turn stands inside a call that does not await: recognize,
\* generate_content, send_message and text_to_speech.convert are synchronous
\* calls inside coroutines, so the turn keeps the event loop's thread until
\* the call is over.  At "lookup" (await file.read()) the turn is suspended
\* and the loop is free.
BlockingPcs == {"stt", "analyze", "select", "synth", "synth_safety"}

\* is_weather_query, as services.py carries it commented out; a keyword is
\* looked for as a word of the transcript.
weather_keywords ==
    {"weather", "temperature", "hot", "cold", "rain", "sunny", "forecast"}
is_weather_query(transcript) ==
    \E i \in 1..Len(transcript) : LowerWord(transcript[i]) \in weather_keywords

\* At "context" the turn is suspended only in "await get_weather(...)",
\* which a weather query with a location or coordinates reaches; every
\* other transcript passes the section without giving up the thread.
HoldsLoop(t) ==
    \/ turns[t].pc \in BlockingPcs
    \/ turns[t].pc = "context" /\ ~is_weather_query(turns[t].transcript)

\* The loop can run turn t: no other turn keeps the thread.
CanRun(t) == \A u \in Turns \ {t} : ~HoldsLoop(u)

LoopTranscripts == {<<"SP">>, <<"hello">>, <<"kill", "myself">>, <<"weather">>}

\* Some step of turn t: the disjuncts of LoopNext for this turn.
TurnStep(t) ==
    \/ ChatFinish(t, FALSE)
    \/ ChatBegin(t, NoneVal)
    \/ ChatLookup(t)
    \/ ChatTranscribeFails(t)
    \/ \E transcript \in LoopTranscripts : ChatTranscribed(t, transcript)
    \/ \E audio \in {"audio", "TTSError"} : ChatSafetySynthesized(t, audio)
    \/ \E reply \in AnalysisReplies : ChatAnalyzed(t, reply)
    \/ ChatContext(t)
    \/ \E reply \in SelectionReplies, phrase \in AllPhrases : ChatSelected(t, reply, phrase)
    \/ \E audio \in {"audio", "TTSError"} : ChatSynthesized(t, audio)

LoopInit ==
    /\ ProgramInit
    /\ resources = file_resources
    /\ phrases = LoadedCatalog
    /\ config = [vertex |-> TRUE, elevenlabs |-> TRUE]

\* The loop runs one step of a turn it can run.
LoopNext ==
    \/ \E t \in Turns : CanRun(t) /\ ChatFinish(t, FALSE)
    \/ \E t \in Turns : CanRun(t) /\ ChatBegin(t, NoneVal)
    \/ \E t \in Turns : CanRun(t) /\ ChatLookup(t)
    \/ \E t \in Turns : CanRun(t) /\ ChatTranscribeFails(t)
    \/ \E t \in Turns, transcript \in LoopTranscripts :
           CanRun(t) /\ ChatTranscribed(t, transcript)
    \/ \E t \in Turns, audio \in {"audio", "TTSError"} :
           CanRun(t) /\ ChatSafetySynthesized(t, audio)
    \/ \E t \in Turns, reply \in AnalysisReplies : CanRun(t) /\ ChatAnalyzed(t, reply)
    \/ \E t \in Turns : CanRun(t) /\ ChatContext(t)
    \/ \E t \in Turns, reply \in SelectionReplies, phrase \in AllPhrases :
           CanRun(t) /\ ChatSelected(t, reply, phrase)
    \/ \E t \in Turns, audio \in {"audio", "TTSError"} :
           CanRun(t) /\ ChatSynthesized(t, audio)

SpecLoop == LoopInit /\ [][LoopNext]_vars

\* No turn is inside a call that keeps the event loop's thread.
LoopFree == \A t \in Turns : ~HoldsLoop(t)

\* A turn on the event loop together with the persona routes: the handler of
\* a persona route runs only while the turn is suspended at an await that
\* yields, or between turns.
SharedTranscripts == {<<"hello">>, <<"weather">>, <<"overdose">>}

SharedNext ==
    \/ \E t \in SerialTurns : ChatFinish(t, FALSE)
    \/ \E t \in SerialTurns, persona_id \in PersonaIdInputs : ChatBegin(t, persona_id)
    \/ \E t \in SerialTurns : ChatLookup(t)
    \/ \E t \in SerialTurns : ChatTranscribeFails(t)
    \/ \E t \in SerialTurns, transcript \in SharedTranscripts :
           ChatTranscribed(t, transcript)
    \/ \E t \in SerialTurns, audio \in {"audio", "TTSError"} :
           ChatSafetySynthesized(t, audio)
    \/ \E t \in SerialTurns, reply \in AnalysisReplies : ChatAnalyzed(t, reply)
    \/ \E t \in SerialTurns : ChatContext(t)
    \/ \E t \in SerialTurns, reply \in SelectionReplies, phrase \in AllPhrases :
           ChatSelected(t, reply, phrase)
    \/ \E t \in SerialTurns, audio \in {"audio", "TTSError"} :
           ChatSynthesized(t, audio)
    \/ LoopFree /\ TurnStoreNext

SpecShared == LoopInit /\ [][SharedNext]_vars

-----------------------------------------------------------------------------
(* The persona routes of main.py and direct calls of persona_store *)

\* How many requests arrive in all, and how many wait at a time.
MaxRequests == 3
MaxInFlight == 2

\* The float fields of a persona.  A body or a keyword dict carries None in
\* such a field by not having the field.
NumberFields == {"base_stability", "base_similarity_boost", "base_style"}

\* "x or default" on an optional number: None and 0 are falsy.
PyOr(data, key, default) ==
    IF key \notin DOMAIN data \/ data[key] = 0 THEN default ELSE data[key]

\* PersonaCreate: a field the body omits takes the default of the class.
PersonaCreate(body) ==
    [name |-> body.name, base_prompt |-> body.base_prompt,
     voice_id |-> Arg(body, "voice_id", NoneVal),
     base_stability |-> Arg(body, "base_stability", 500),
     base_similarity_boost |-> Arg(body, "base_similarity_boost", 750),
     base_style |-> Arg(body, "base_style", 0)]

\* create_persona: the keyword arguments it hands to persona_store.create.
create_persona_kwargs(body) ==
    LET persona_data == PersonaCreate(body)
    IN  [name |-> persona_data.name, base_prompt |-> persona_data.base_prompt,
         voice_id |-> persona_data.voice_id,
         base_stability |-> PyOr(persona_data, "base_stability", 500),
         base_similarity_boost |-> PyOr(persona_data, "base_similarity_boost", 750),
         base_style |-> PyOr(persona_data, "base_style", 0)]

\* update_persona: update_fields, the fields of the body that are not None.
update_fields(body) ==
    [k \in {f \in DOMAIN body : f \in NumberFields \/ body[f] # NoneVal} |-> body[k]]

\* A request: through the endpoint ("route") or a call of persona_store
\* itself ("store"); seq is its place in the order of arrival.
Request(via, op, id, data) == [via |-> via, op |-> op, id |-> id, data |-> data]

RequestIds == {"default-cheerful", "uuid-1"}

RequestInputs ==
    {Request("route", "create", NoneVal, body) : body \in CreateArgs}
    \cup {Request("store", "create", NoneVal,
                  [name |-> "Zero", base_prompt |-> "zero prompt", voice_id |-> "voice-2",
                   base_stability |-> 0, base_similarity_boost |-> 0, base_style |-> 0])}
    \cup {Request("route", "update", id, body) :
             id \in RequestIds,
             body \in {[voice_id |-> "voice-3", base_stability |-> 900],
                       [base_stability |-> 100, name |-> NoneVal]}}
    \cup {Request("store", "update", id, kwargs) :
             id \in RequestIds,
             kwargs \in {[name |-> "Renamed"],
                         [is_default |-> TRUE, id |-> "hijack", base_style |-> 300]}}
    \cup {Request("route", "delete", id, << >>) : id \in RequestIds}

\* The keyword arguments that reach the store.
StoreKwargs(r) ==
    IF r.via = "store" THEN r.data
    ELSE IF r.op = "create" THEN create_persona_kwargs(r.data)
    ELSE update_fields(r.data)

\* A request that was served: what it found, what it returned (a persona as
\* a one-element list, None as the empty list; delete returns found), and
\* the store before and after.
Served(r, seq, found, ret, before, after) ==
    [req |-> r, seq |-> seq, found |-> found, ret |-> ret,
     before |-> before, after |-> after]

RemoveAt(s, i) == [k \in 1..(Len(s) - 1) |-> IF k < i THEN s[k] ELSE s[k + 1]]

RoutesInit == StoreInit

\* A request arrives; its handler has not run yet.
RequestArrives(r) ==
    /\ Len(requests.inflight) < MaxInFlight
    /\ Len(requests.inflight) + Len(requests.served) < MaxRequests
    /\ requests' = [requests EXCEPT !.inflight =
                       Append(@, [req |-> r,
                                  seq |-> Len(requests.inflight) + Len(requests.served) + 1])]
    /\ UNCHANGED <<text, result, personas, nextId, lastOp, turns, resources, phrases, config, prev>>

\* The event loop runs the handler of a waiting request.  The handlers and
\* the store's methods contain no await: each runs from start to end.
RequestServed(i) ==
    /\ i \in 1..Len(requests.inflight)
    /\ LET r     == requests.inflight[i].req
           found == r.op # "create" /\ HasKey(personas, r.id)
           ret   == CASE r.op = "create" -> store_get(personas', Uuids[nextId'])
                      [] r.op = "update" -> IF found THEN store_get(personas', r.id)
                                            ELSE << >>
                      [] OTHER -> << >>
       IN  /\ CASE r.op = "create" -> StoreCreate(StoreKwargs(r))
                [] r.op = "update" -> StoreUpdate(r.id, StoreKwargs(r))
                [] OTHER -> StoreDelete(r.id)
           /\ requests' = [inflight |-> RemoveAt(requests.inflight, i),
                           served |-> Append(requests.served,
                                             Served(r, requests.inflight[i].seq, found,
                                                    ret, personas, personas'))]
    /\ UNCHANGED lastOp

RoutesNext ==
    \/ \E r \in RequestInputs : RequestArrives(r)
    \/ \E i \in 1..MaxInFlight : RequestServed(i)

SpecRoutes == RoutesInit /\ [][RoutesNext]_vars

-----------------------------------------------------------------------------
(* Properties of the safety gate, checked under SpecGate *)

\* The categories one of whose rules matches the lower-cased text.
MatchedCategories(t) ==
    {c \in HarmCategory :
        \E k \in 1..Len(HARM_PATTERNS[c]) : re_search(HARM_PATTERNS[c][k], Lower(t))}

\* The rules that match the lower-cased text, as <<category, index>>.
MatchedRules(t) ==
    {ck \in HarmCategory \X UNION {DOMAIN HARM_PATTERNS[c] : c \in HarmCategory} :
        /\ ck[2] \in DOMAIN HARM_PATTERNS[ck[1]]
        /\ re_search(HARM_PATTERNS[ck[1]][ck[2]], Lower(t))}

\* Every order in which the members of a set can be visited.
OrdersOf(S) ==
    {order \in [1..Cardinality(S) -> S] :
        \A i, j \in 1..Cardinality(S) : order[i] = order[j] => i = j}

\* The scan of check_content with the matching rules visited in the given
\* order (a rule that does not match leaves the scan's state alone).
RECURSIVE VisitMatches(_, _, _)
VisitMatches(order, i, acc) ==
    IF i > Len(order) THEN acc
    ELSE VisitMatches(order, i + 1, RecordMatch(acc, order[i][1], order[i][2]))

\* HARM_PATTERNS_KEYS back to front.
ReversedKeys ==
    [i \in 1..Len(HARM_PATTERNS_KEYS) |->
        HARM_PATTERNS_KEYS[Len(HARM_PATTERNS_KEYS) + 1 - i]]

\* C7: the weights are suicide_self_harm 1.0 > self_harm 0.95 > violence 0.9
\* > abuse 0.85 > discrimination 0.8 > substance_abuse 0.75 > general_harmful
\* 0.6; the emitted category is the matched category of highest weight,
\* whatever the order in which categories and rules are visited; a text
\* matching self_harm and substance_abuse but nothing heavier is classified
\* self_harm; the emitted confidence is the emitted category's weight.
C7_HighestPriorityWins ==
    (result # << >> /\ ~IsBlank(text)) =>
        LET matched == MatchedCategories(text)
            r       == result[1]
        IN  /\ [i \in 1..7 |->
                   category_priority(<<"suicide_self_harm", "self_harm", "violence",
                                       "abuse", "discrimination", "substance_abuse",
                                       "general_harmful">>[i])]
                   = <<100, 95, 90, 85, 80, 75, 60>>
            /\ matched = {} => r.category = "none"
            /\ matched # {} =>
                   /\ r.category \in matched
                   /\ \A c \in matched : category_priority(c) <= category_priority(r.category)
                   /\ r.confidence = category_priority(r.category)
            /\ \A order \in OrdersOf(MatchedRules(text)) :
                   LET other == BuildResult(VisitMatches(order, 1,
                                    [matched_patterns |-> << >>,
                                     detected_category |-> "none",
                                     highest_confidence |-> 0]))
                   IN  /\ other.category = r.category
                       /\ other.confidence = r.confidence
                       /\ other.is_harmful = r.is_harmful
                       /\ other.requires_crisis_resources = r.requires_crisis_resources
            /\ CheckContentInOrder(ReversedKeys, text).category = r.category
            /\ ({"self_harm", "substance_abuse"} \subseteq matched
                    /\ "suicide_self_harm" \notin matched) => r.category = "self_harm"

\* A text matching a self_harm rule and a substance_abuse rule was classified.
C7_Witness ==
    /\ result # << >>
    /\ {"self_harm", "substance_abuse"} \subseteq MatchedCategories(text)
    /\ result[1].category = "self_harm"
    /\ result[1].confidence = 95

\* C8: in every result is_harmful holds exactly when the category is not
\* none, requires_crisis_resources holds exactly when the category is one of
\* suicide_self_harm, self_harm, abuse, violence, and the confidence lies in
\* [0, 1].
C8_ResultWellFormed ==
    result # << >> =>
        LET r == result[1]
        IN  /\ r.category \in HarmCategory
            /\ r.is_harmful = (r.category # "none")
            /\ r.requires_crisis_resources =
                   (r.category \in {"suicide_self_harm", "self_harm", "abuse", "violence"})
            /\ 0 <= r.confidence /\ r.confidence <= 100

\* A violent text was classified and asks for crisis resources.
C8_Witness ==
    /\ result # << >>
    /\ result[1].category = "violence"
    /\ result[1].is_harmful
    /\ result[1].requires_crisis_resources

\* C9: for empty text, whitespace-only text and text that matches no rule the
\* result is category none, not harmful, no crisis resources, confidence 1.0
\* and no matched patterns; a result with matched patterns is harmful.
C9_NoMatchIsSafe ==
    result # << >> =>
        /\ (Len(text) = 0 \/ IsBlank(text) \/ MatchedCategories(text) = {}) =>
               result[1] = [is_harmful |-> FALSE, category |-> "none",
                            confidence |-> 100, requires_crisis_resources |-> FALSE,
                            matched_patterns |-> << >>]
        /\ result[1].matched_patterns # << >> => result[1].is_harmful

\* A whitespace-only text was classified.
C9_Witness ==
    /\ result # << >>
    /\ Len(text) > 0
    /\ IsBlank(text)
    /\ result[1].category = "none"

\* C10: a text on which some suicide_self_harm rule matches is classified
\* harmful, suicide_self_harm, with crisis resources required, whatever other
\* categories' rules match too.
C10_SuicideRuleAlwaysWins ==
    (/\ result # << >>
     /\ \E k \in 1..Len(HARM_PATTERNS["suicide_self_harm"]) :
            re_search(HARM_PATTERNS["suicide_self_harm"][k], Lower(text))) =>
        /\ result[1].is_harmful
        /\ result[1].category = "suicide_self_harm"
        /\ result[1].requires_crisis_resources

\* A text matching a suicide rule and a rule of another category was
\* classified.
C10_Witness ==
    /\ result # << >>
    /\ "suicide_self_harm" \in MatchedCategories(text)
    /\ MatchedCategories(text) \ {"suicide_self_harm"} # {}
    /\ result[1].category = "suicide_self_harm"


-----------------------------------------------------------------------------
(* Properties of the persona store, checked under SpecStore *)

\* The positions of the personas marked default.
Defaults(ps) == {i \in 1..Len(ps) : ps[i].is_default}

\* C5 as stated: in every reachable state of the store exactly one persona
\* has is_default = true.
C5_ExactlyOneDefault == Cardinality(Defaults(personas)) = 1

\* C5: the store is never empty and never holds two personas marked default;
\* the only persona ever marked default is "default-cheerful", so the store
\* holds none marked default exactly while that persona is deleted and others
\* remain; get_default returns a persona marked default and leaves exactly
\* one in the store.
C5_AtMostOneDefault ==
    /\ Len(personas) >= 1
    /\ Cardinality(Defaults(personas)) <= 1
    /\ \A i \in 1..Len(personas) :
           personas[i].is_default <=> personas[i].id = "default-cheerful"
    /\ lastOp.op = "get_default" =>
           /\ Cardinality(Defaults(personas)) = 1
           /\ lastOp.seen[1].is_default
           /\ HasKey(personas, lastOp.seen[1].id)

\* get_default has re-created the default persona behind a created one.
C5_Witness ==
    /\ lastOp.op = "get_default"
    /\ Len(personas) >= 2
    /\ personas[Len(personas)].id = "default-cheerful"
    /\ ~personas[1].is_default

\* C6: the store is never observed empty; once a delete has removed the last
\* persona (after any creates and deletes), the store holds exactly one
\* persona, marked default, and that is what the next read returns.
C6_NeverObservedEmpty ==
    /\ Len(personas) >= 1
    /\ lastOp.op = "get_all" => Len(lastOp.seen) >= 1
    /\ lastOp.emptied =>
           /\ Len(personas) = 1
           /\ personas[1].is_default
           /\ lastOp.op = "get_all" => lastOp.seen = personas
           /\ lastOp.op = "get_default" => lastOp.seen = personas
           /\ lastOp.op = "get" => lastOp.seen \in {<< >>, personas}

\* Personas were created, every persona was deleted, and the store was read.
C6_Witness ==
    /\ lastOp.op = "get_all"
    /\ lastOp.emptied
    /\ nextId >= 1
    /\ Len(lastOp.seen) = 1
    /\ lastOp.seen[1].is_default


-----------------------------------------------------------------------------
(* Properties of the chat turn, checked under Spec *)

\* How often a call occurs in a turn's call sequence.
Count(calls, name) == Cardinality({i \in 1..Len(calls) : calls[i] = name})

\* Every occurrence of call b comes after an occurrence of call a.
Precedes(calls, a, b) ==
    \A j \in 1..Len(calls) : calls[j] = b => \E i \in 1..(j - 1) : calls[i] = a

PersonaCalls == {"persona_store.get", "persona_store.get_default"}
ModelCalls == {"analyze_intent_and_tone", "generate_response"}

\* C1: two runs that received the same transcript, with whatever persona
\* store states and persona ids, agree on the safety verdict, on the
\* supportive text and, where both sent a response, on is_safety_response,
\* safety_category and the supportive response_text; the verdict is the
\* gate's function of the transcript alone.
C1_SafetyOutcomeIndependentOfPersona ==
    \A t \in SerialTurns :
        LET b == Outcome(turns[t])
        IN  /\ Len(b.safety) = 1 => b.safety[1] = check_content_safety(b.transcript)
            /\ (Len(prev) = 1 /\ b.transcript # << >>
                    /\ b.transcript = prev[1].transcript) =>
                   LET a == prev[1]
                   IN  /\ a.safety = b.safety
                       /\ a.supportive_text = b.supportive_text
                       /\ (Len(a.response) = 1 /\ Len(b.response) = 1) =>
                              /\ a.response[1].is_safety_response =
                                     b.response[1].is_safety_response
                              /\ a.response[1].safety_category =
                                     b.response[1].safety_category
                              /\ a.response[1].is_safety_response =>
                                     a.response[1].response_text =
                                         b.response[1].response_text

\* Two runs with the same harmful transcript and different personas both
\* sent a safety response.
C1_Witness ==
    LET b == Outcome(turns["t1"])
    IN  /\ Len(prev) = 1
        /\ turns["t1"].pc = "done"
        /\ Len(prev[1].response) = 1
        /\ prev[1].response[1].is_safety_response
        /\ b.transcript = prev[1].transcript
        /\ b.response[1].is_safety_response
        /\ b.persona[1].id # prev[1].persona[1].id
        /\ b.persona[1].voice_id # prev[1].persona[1].voice_id

\* C2 as stated: the gate comes before every persona store lookup and every
\* model-driven step, and every turn past transcription, a turn with an
\* empty or whitespace-only transcript included, has had the gate evaluated
\* before it responds.
C2_GateBeforeEverything ==
    \A t \in SerialTurns :
        LET calls == turns[t].calls
        IN  /\ \A step \in PersonaCalls \cup ModelCalls :
                   Precedes(calls, "check_content_safety", step)
            /\ turns[t].transcript # << >> => Count(calls, "check_content_safety") >= 1
            /\ Len(turns[t].response) = 1 => Count(calls, "check_content_safety") >= 1

\* C2: the persona lookup and the transcription come first; a turn whose
\* transcript is not blank has the gate evaluated in the step that receives
\* the transcript, before every model-driven step, before the supportive
\* text, the voice settings and the synthesis, and before any response; a
\* turn whose transcript is blank answers with the fixed retry reply and
\* neither the gate nor a model-driven step runs.
C2_GateBeforeModelSteps ==
    \A t \in SerialTurns :
        LET tr    == turns[t]
            calls == tr.calls
        IN  /\ \A step \in ModelCalls \cup {"get_supportive_response",
                                            "compute_voice_settings",
                                            "synthesize_speech"} :
                   Precedes(calls, "check_content_safety", step)
            /\ Count(calls, "check_content_safety") <= 1
            /\ Count(calls, "check_content_safety") = 1 =>
                   LET gate == CHOOSE i \in 1..Len(calls) :
                                   calls[i] = "check_content_safety"
                   IN  /\ calls[1] \in PersonaCalls
                       /\ \E j \in 1..(gate - 1) : calls[j] = "transcribe_audio"
                       /\ \A j \in 1..Len(calls) :
                              calls[j] \in PersonaCalls \cup {"transcribe_audio"} =>
                                  j < gate
            /\ (tr.transcript # << >> /\ ~IsBlank(tr.transcript)) =>
                   /\ Count(calls, "check_content_safety") = 1
                   /\ Len(tr.safety) = 1
            /\ (tr.transcript # << >> /\ IsBlank(tr.transcript)) =>
                   /\ Count(calls, "check_content_safety") = 0
                   /\ \A step \in ModelCalls : Count(calls, step) = 0
                   /\ tr.pc = "done"
                   /\ tr.response = <<EmptyTranscriptResponse>>
            /\ Len(tr.response) = 1 =>
                   \/ Count(calls, "check_content_safety") = 1
                   \/ tr.response = <<EmptyTranscriptResponse>>

\* A blank turn got the retry reply, and the next turn went through the
\* gate, the classifier and the phrase selection to a response.
C2_Witness ==
    /\ Len(prev) = 1
    /\ IsBlank(prev[1].transcript)
    /\ prev[1].response = <<EmptyTranscriptResponse>>
    /\ turns["t1"].pc = "done"
    /\ turns["t1"].transcript = <<"hello">>
    /\ Count(turns["t1"].calls, "generate_response") = 1
    /\ ~turns["t1"].response[1].is_safety_response

\* C3 as stated: once the verdict of a turn is harmful, the classifier, the
\* phrase selection and compute_voice_settings are not invoked, synthesis is
\* invoked exactly once, with the supportive text, and the response carries
\* is_safety_response = true, the verdict's category and the supportive text.
C3_HarmfulTurnShortCircuits ==
    \A t \in SerialTurns :
        LET tr == turns[t]
        IN  (Len(tr.safety) = 1 /\ tr.safety[1].is_harmful) =>
                /\ \A step \in ModelCalls \cup {"compute_voice_settings"} :
                       Count(tr.calls, step) = 0
                /\ Count(tr.calls, "synthesize_speech") = 1
                /\ Len(tr.synth) = 1
                /\ tr.supportive_text # << >>
                /\ tr.synth[1].text = tr.supportive_text
                /\ Len(tr.response) = 1 =>
                       /\ tr.response[1].is_safety_response
                       /\ tr.response[1].safety_category = tr.safety[1].category
                       /\ tr.response[1].response_text = tr.supportive_text

\* C4: every synthesis of a harmful turn is passed stability 0.7,
\* similarity_boost 0.75 and style 0.1, whatever the persona and the
\* category, and compute_voice_settings has not been called on the way.
C4_SafetyVoiceSettingsFixed ==
    \A t \in SerialTurns :
        LET tr == turns[t]
        IN  (Len(tr.safety) = 1 /\ tr.safety[1].is_harmful) =>
                /\ Count(tr.calls, "compute_voice_settings") = 0
                /\ \A i \in 1..Len(tr.synth) :
                       tr.synth[i].voice_settings =
                           [stability |-> 700, similarity_boost |-> 750, style |-> 100]

\* A harmful turn was synthesized for a persona whose base values and voice
\* are not the default persona's.
C4_Witness ==
    LET tr == turns["t1"]
    IN  /\ tr.pc = "done"
        /\ tr.response[1].is_safety_response
        /\ tr.response[1].safety_category = "substance_abuse"
        /\ tr.persona[1].base_stability = 0
        /\ tr.persona[1].base_style = 500
        /\ Len(tr.synth) = 1
        /\ tr.synth[1].voice_id = tr.persona[1].voice_id


-----------------------------------------------------------------------------
(* The safety test table, checked under SpecGate *)

\* C11 as stated: every sentence of the test table is classified as the
\* table states: is_harmful and the category are the expected ones, the
\* sentence "I want to kill everyone" being violence.
C11_TestTableHolds ==
    result # << >> =>
        \A i \in DOMAIN test_cases :
            text = test_cases[i].text =>
                /\ result[1].is_harmful = test_cases[i].harmful
                /\ result[1].category = test_cases[i].category


-----------------------------------------------------------------------------
(* Properties of the classifier, checked under SpecAnalyze *)

\* Default analysis with the given confidence for the transcript in hand.
NeutralDefault(confidence) ==
    Returned(IntentToneAnalysis(text, "casual_chat", "neutral", confidence))

\* C12: every analysis that analyze_intent_and_tone returns has its intent
\* in VALID_INTENTS and its tone in VALID_TONES; a value of the backend that
\* is missing, of another type or not in the set comes out as casual_chat /
\* neutral, and a listed value comes out unchanged.
C12_IntentAndToneInClosedSets ==
    (result # << >> /\ result[1].ret.ok) =>
        LET reply    == result[1].reply
            analysis == result[1].ret.value
        IN  /\ analysis.intent \in {"venting", "seeking_advice", "casual_chat", "question"}
            /\ analysis.tone \in
                   {"happy", "sad", "frustrated", "neutral", "anxious", "excited"}
            /\ (config.vertex /\ ~IsBlank(text) /\ reply.kind = "text"
                    /\ Len(reply.text) = 1 /\ reply.text[1].t = "object") =>
                   LET fields == reply.text[1].fields
                   IN  /\ analysis.intent =
                              IF "intent" \in DOMAIN fields /\ fields["intent"] = JStr("venting")
                              THEN "venting" ELSE "casual_chat"
                       /\ analysis.tone =
                              IF "tone" \in DOMAIN fields /\ fields["tone"] = JStr("sad")
                              THEN "sad" ELSE "neutral"

\* A JSON object with an intent of the wrong type and a tone outside the set
\* came back, and an analysis was returned.
C12_Witness ==
    /\ result # << >>
    /\ result[1].ret.ok
    /\ result[1].reply.kind = "text"
    /\ result[1].reply.text =
           <<ObjectOf(<<JNum(5)>>, <<JStr("angry")>>, <<JNum(70)>>)>>
    /\ config.vertex
    /\ text = <<"hello">>
    /\ result[1].ret.value.intent = "casual_chat"
    /\ result[1].ret.value.tone = "neutral"


\* A text was received from the backend (the call itself did not raise).
Received(reply) == reply.kind = "text"

\* C13 as stated: analyze_intent_and_tone raises only when the external call
\* raised; for every text that was received (no JSON, JSON that is no
\* object, a confidence that is no number or null, a code fence without a
\* payload) it returns an analysis.
C13_RaisesOnlyOnCallError ==
    result # << >> =>
        /\ ~result[1].ret.ok => ~Received(result[1].reply)
        /\ Received(result[1].reply) => result[1].ret.ok


\* C14 as stated: the result is the neutral default with confidence 0.0 for
\* every empty or whitespace-only transcript (also without a backend), with
\* 0.5 when the backend is unavailable, with 0.3 when the received text does
\* not parse, and every other returned confidence lies in [0, 1].
C14_DefaultConfidences ==
    result # << >> =>
        LET reply == result[1].reply
            ret   == result[1].ret
        IN  /\ IsBlank(text) => ret = NeutralDefault(0)
            /\ (~IsBlank(text) /\ ~config.vertex) => ret = NeutralDefault(50)
            /\ (~IsBlank(text) /\ config.vertex /\ Received(reply)
                    /\ ~json_loads(StripFence(reply.text)).ok) =>
                   ret = NeutralDefault(30)
            /\ ret.ok => (0 <= ret.value.confidence /\ ret.value.confidence <= 100)


-----------------------------------------------------------------------------
(* Properties of the turn's model calls, checked under Spec *)

\* C15 as stated: a turn the gate found not harmful never ends with the
\* error of the classification or phrase-selection call; when it is over it
\* has gone on to synthesize_speech.
C15_ModelErrorsNeverSurface ==
    \A t \in Turns :
        (/\ turns[t].safety # << >>
         /\ ~turns[t].safety[1].is_harmful
         /\ turns[t].pc \in {"done", "failed"}) =>
            /\ turns[t].error \notin {"AnalysisError", "LLMError"}
            /\ \E i \in DOMAIN turns[t].calls : turns[t].calls[i] = "synthesize_speech"

-----------------------------------------------------------------------------
(* Properties of the voice settings, checked under SpecVoice *)

\* C16: for persona base values in [0, 1] and every tone and intent, in the
\* tables or not, compute_voice_settings returns a stability in [0.1, 0.9]
\* and a style in [0.0, 0.5], and the same inputs give the same settings.
C16_VoiceSettingsInRange ==
    result # << >> =>
        LET settings == result[1].settings
        IN  /\ 100 <= settings.stability /\ settings.stability <= 900
            /\ 0 <= settings.style /\ settings.style <= 500
            /\ settings = compute_voice_settings(result[1].persona, result[1].analysis)

\* C16 witness: an intent of no table and a tone whose adjustments took both
\* sums out of the range, so that both values were clamped.
C16_Witness ==
    /\ result # << >>
    /\ result[1].analysis.tone = "excited"
    /\ result[1].analysis.intent = "smalltalk"
    /\ result[1].persona.base_stability = 50
    /\ result[1].persona.base_style = 950
    /\ result[1].settings.stability = 100
    /\ result[1].settings.style = 500

\* What the tone step of compute_voice_settings made of the stability: the
\* base value plus the delta of the tone, clamped to [0.1, 0.9].
ToneStepStability(call) ==
    Max(100, Min(900, call.persona.base_stability
                        + tone_adjustments(call.analysis.tone).stability))

\* The stability the intent adjustment makes of the one of the tone step.
IntentStepStability(call) ==
    LET t == ToneStepStability(call)
    IN  CASE call.analysis.intent = "venting" -> IF t + 50 > 900 THEN 900 ELSE t + 50
          [] call.analysis.intent = "question" -> IF t < 500 THEN 500 ELSE t
          [] OTHER -> t

\* The same call with another intent.
WithIntent(call, intent) ==
    compute_voice_settings(call.persona, [call.analysis EXCEPT !.intent = intent])

\* C23 as stated: the returned stability is the one of the tone step after
\* the intent adjustment (venting plus 0.05 and at most 0.9, question at
\* least 0.5, any other intent no change), the returned similarity_boost is
\* the persona's base_similarity_boost, and the style is the same for every
\* intent.
C23_IntentAfterClamp_AsStated ==
    result # << >> =>
        LET call == result[1]
        IN  /\ call.settings.stability = IntentStepStability(call)
            /\ call.settings.similarity_boost = call.persona.base_similarity_boost
            /\ \A intent \in VoiceIntents :
                   WithIntent(call, intent).style = call.settings.style

\* C23, amended: the returned stability is the one of the tone step after
\* the intent adjustment, rounded to two decimals; the returned
\* similarity_boost is the persona's base_similarity_boost rounded to two
\* decimals; the style is the same for every intent.
C23_IntentAfterClampThenRounded ==
    result # << >> =>
        LET call == result[1]
        IN  /\ call.settings.stability = round2(IntentStepStability(call))
            /\ call.settings.similarity_boost
                   = round2(call.persona.base_similarity_boost)
            /\ \A intent \in VoiceIntents :
                   WithIntent(call, intent).style = call.settings.style

\* C23 witness: a venting call whose tone step was clamped up to 0.1, so that
\* the adjustment after the clamp gave 0.15, with a base_similarity_boost
\* of three decimals that came back rounded.
C23_Witness ==
    /\ result # << >>
    /\ result[1].analysis.intent = "venting"
    /\ result[1].analysis.tone = "excited"
    /\ result[1].persona.base_stability = 4
    /\ result[1].persona.base_similarity_boost = 754
    /\ result[1].settings.stability = 150
    /\ result[1].settings.similarity_boost = 750

-----------------------------------------------------------------------------
(* Properties of the phrase selection, checked under SpecPhrase *)

\* C17: for every tone and intent, every answer or error of the backend, no
\* backend at all, and a loaded, partly loaded or empty catalog,
\* generate_response and select_phrase return, and what they return is not
\* the empty string.
C17_AlwaysAPhrase ==
    result # << >> => (result[1].ret.ok /\ result[1].ret.value # "")

\* C17 witness: with an empty catalog and a backend that answered the empty
\* string, generate_response came out with the final fallback of
\* select_phrase.
C17_Witness ==
    /\ result # << >>
    /\ result[1].op = "generate_response"
    /\ phrases = EmptyCatalog
    /\ config.vertex
    /\ result[1].reply = [kind |-> "text", text |-> << >>]
    /\ result[1].tone = "angry"
    /\ result[1].ret = Returned("I hear you")

-----------------------------------------------------------------------------
(* Properties of the safety checker, checked under SpecChecker *)

\* The files that cannot be loaded.
LoadFailures == {"missing", "unreadable", "undecodable", "malformed"}

\* C18 as stated: constructing the checker never fails; when the file is
\* missing, unreadable or malformed the built-in table is the one in use; and
\* get_supportive_response then returns a non-empty string for every
\* category, with the loaded and with the built-in table.
C18_AlwaysSupportiveText ==
    /\ prev # << >> =>
          /\ prev[1].ret.ok
          /\ prev[1].arg.kind \in LoadFailures => resources = default_resources
    /\ (result # << >> /\ result[1].op = "get_supportive_response") =>
          (result[1].ret.ok /\ result[1].ret.value # "")

\* C19 as stated: with a resource document that loaded, of whatever shape,
\* check_content and format_response_with_resources return for every text
\* and every category.
C19_GateNeverRaises ==
    (/\ prev # << >>
     /\ prev[1].arg.kind = "json"
     /\ result # << >>
     /\ result[1].op \in {"check_content", "format_response_with_resources"}) =>
        result[1].ret.ok

-----------------------------------------------------------------------------
(* Properties of concurrent turns, checked under SpecLoop *)

\* The turns with a request in progress.
InFlight == {t \in Turns : turns[t].pc \notin {"idle", "done", "failed"}}

\* C20 as stated: while a turn is inside its classification call or its
\* phrase-selection call, the other turns in flight are not all kept from
\* taking a step.
C20_WaitingTurnBlocksNoOne ==
    \A t \in Turns :
        (turns[t].pc \in {"analyze", "select"} /\ InFlight \ {t} # {}) =>
            \E u \in InFlight \ {t} : ENABLED (CanRun(u) /\ TurnStep(u))

-----------------------------------------------------------------------------
(* Properties of the persona routes, checked under SpecRoutes *)

\* The fields of a persona an update may set.
SettableFields ==
    {"name", "base_prompt", "voice_id", "base_stability", "base_similarity_boost",
     "base_style"}

\* What a served request does to a store when the requests run one after
\* the other: create adds the persona it returned, update sets the given
\* fields of the persona with the id if there is one, delete removes it and
\* an empty store gets the default persona.
SeqApply(store, e) ==
    LET HasId(p) == p.id = e.req.id
        Others(p) == p.id # e.req.id
        kwargs == StoreKwargs(e.req)
    IN  CASE e.req.op = "create" -> store \o e.ret
          [] e.req.op = "update" ->
               [i \in 1..Len(store) |->
                   IF HasId(store[i])
                   THEN [f \in DOMAIN store[i] |->
                            IF f \in SettableFields \cap DOMAIN kwargs
                            THEN kwargs[f] ELSE store[i][f]]
                   ELSE store[i]]
          [] OTHER -> IF SelectSeq(store, Others) = << >> THEN <<DefaultPersona>>
                      ELSE SelectSeq(store, Others)

RECURSIVE SeqReplay(_, _)
SeqReplay(log, k) ==
    IF k = 0 THEN <<DefaultPersona>> ELSE SeqApply(SeqReplay(log, k - 1), log[k])

\* C21: whatever the order in which concurrent create, update and delete
\* requests arrive and are served, the store is what the served requests
\* give when run one after the other (no update is lost), an update returns
\* a persona only if the persona was still stored, and a delete that empties
\* the store leaves it with the default persona in the same step.
C21_StoreOpsSerialized ==
    LET log == requests.served
    IN  /\ personas = SeqReplay(log, Len(log))
        /\ Len(personas) > 0
        /\ \A k \in DOMAIN log :
              /\ log[k].before = SeqReplay(log, k - 1)
              /\ log[k].after = SeqReplay(log, k)
              /\ (log[k].req.op = "update" /\ log[k].ret # << >>) =>
                    \E i \in DOMAIN log[k].before : log[k].before[i].id = log[k].req.id
              /\ (log[k].req.op = "delete" /\ log[k].found /\ Len(log[k].before) = 1) =>
                    log[k].after = <<DefaultPersona>>

\* C21 witness: an update of a persona arrived before the delete of the same
\* persona, was served after it and returned None.
C21_Witness ==
    \E j, k \in DOMAIN requests.served :
        /\ j < k
        /\ requests.served[j].req.op = "delete"
        /\ requests.served[j].found
        /\ requests.served[k].req.op = "update"
        /\ requests.served[k].req.id = requests.served[j].req.id
        /\ requests.served[k].seq < requests.served[j].seq
        /\ requests.served[k].ret = << >>

\* The documented defaults of a created persona.
CreateDefaults ==
    [voice_id |-> "21m00Tcm4TlvDq8ikWAM", base_stability |-> 500,
     base_similarity_boost |-> 750, base_style |-> 0]

\* C22 as stated: the persona a create returned, fetched by its id right
\* after, carries every supplied value as supplied (0 included), the
\* defaults in the omitted fields only, and is_default = false; for a
\* create on the store and for one through the endpoint.
C22_CreateRoundTrip ==
    \A k \in DOMAIN requests.served :
        LET e == requests.served[k]
            supplied(f) == f \in DOMAIN e.req.data /\ (f # "voice_id" \/ e.req.data[f] # NoneVal)
            fetched == store_get(e.after, e.ret[1].id)
        IN  e.req.op = "create" =>
               /\ Len(fetched) = 1
               /\ \A f \in SettableFields :
                     fetched[1][f] = IF supplied(f) THEN e.req.data[f]
                                     ELSE CreateDefaults[f]
               /\ ~fetched[1].is_default

\* C27: an update that finds its persona leaves the id and is_default of
\* that persona and every other persona as they were, whatever fields it is
\* given; an update and a delete of an id that is not stored return None and
\* False and leave the store as it was.
C27_UpdateKeepsIdentity ==
    \A k \in DOMAIN requests.served :
        LET e == requests.served[k]
        IN  /\ (e.req.op = "update" /\ e.found) =>
                  /\ Len(e.after) = Len(e.before)
                  /\ \A i \in DOMAIN e.before :
                        /\ e.after[i].id = e.before[i].id
                        /\ e.after[i].is_default = e.before[i].is_default
                        /\ e.before[i].id # e.req.id => e.after[i] = e.before[i]
                  /\ Len(e.ret) = 1 /\ e.ret[1].id = e.req.id
            /\ (e.req.op \in {"update", "delete"} /\ ~e.found) =>
                  /\ e.ret = << >>
                  /\ e.after = e.before
            /\ e.req.op \in {"update", "delete"} =>
                  (e.found <=> \E i \in DOMAIN e.before : e.before[i].id = e.req.id)

\* C27 witness: an update given is_default, id and base_style found a created
\* persona next to the default one and set its base_style; and an update of
\* an id that was not stored was served.
C27_Witness ==
    \E j, k \in DOMAIN requests.served :
        /\ requests.served[j].req.op = "update"
        /\ requests.served[j].found
        /\ requests.served[j].req.data =
              [is_default |-> TRUE, id |-> "hijack", base_style |-> 300]
        /\ Len(requests.served[j].before) = 2
        /\ requests.served[j].ret[1].base_style = 300
        /\ requests.served[j].ret[1].id = "uuid-1"
        /\ ~requests.served[j].ret[1].is_default
        /\ requests.served[k].req.op = "update"
        /\ ~requests.served[k].found

-----------------------------------------------------------------------------
(* Properties of the selection rules, checked under SpecPhrase *)

\* The categories the selection rules name for a tone and an intent, the
\* first rule that matches deciding.
RuleCategories(tone, intent) ==
    CASE tone \in {"frustrated", "sad", "anxious"} \/ intent = "venting" ->
             {"active_listening", "validating_responses", "thoughtful_pauses"}
      [] tone \in {"happy", "excited"} /\ intent # "venting" ->
             {"positive_acknowledgments", "excited_celebratory"}
      [] OTHER ->
             CASE intent = "question" ->
                      {"neutral_acknowledgments", "reflective_acknowledgments"}
               [] intent = "casual_chat" ->
                      {"active_listening", "neutral_acknowledgments",
                       "encouraging_continuation"}
               [] intent = "seeking_advice" ->
                      {"reflective_acknowledgments", "neutral_acknowledgments",
                       "validating_responses"}
               [] OTHER -> {"active_listening", "neutral_acknowledgments"}

\* The phrases the catalog holds under a set of categories.
PhrasesOf(catalog, categories) == UNION {Elems(catalog[c]) : c \in categories}

\* C24: a select_phrase call on a catalog that holds a phrase under the
\* categories its tone and intent select by the first matching rule returns
\* a phrase of exactly those categories.
C24_PhraseFromRuleCategories ==
    (result # << >> /\ result[1].op = "select_phrase") =>
        LET call  == result[1]
            union == PhrasesOf(phrases, RuleCategories(call.tone, call.intent))
        IN  union # {} => (call.ret.ok /\ call.ret.value \in union)

\* C24 witness: tone sad with intent question on the loaded catalog came out
\* with the phrase of thoughtful_pauses, a category of the first rule and
\* not of the rule for questions.
C24_Witness ==
    /\ result # << >>
    /\ result[1].op = "select_phrase"
    /\ result[1].tone = "sad"
    /\ result[1].intent = "question"
    /\ phrases = LoadedCatalog
    /\ result[1].ret = Returned("Take your time")

\* The phrases of the fallback path for a tone and an intent: those of the
\* categories the rules select, those of active_listening when there is
\* none, "I hear you" when there is none either.
FallbackPhrases(catalog, tone, intent) ==
    LET union == PhrasesOf(catalog, RuleCategories(tone, intent))
    IN  IF union # {} THEN union
        ELSE IF catalog["active_listening"] # << >>
        THEN Elems(catalog["active_listening"])
        ELSE {"I hear you"}

\* The backend answered, and its answer without the whitespace at its ends
\* is a line of the catalog.
AnswerInCatalog(call) ==
    /\ config.vertex
    /\ call.reply.kind = "text"
    /\ \E p \in PhrasesOf(phrases, PhraseCategories) :
          \E before, after \in {<< >>, <<"SP">>} :
             call.reply.text = before \o <<p>> \o after

\* C25: generate_response returns a line of the catalog or "I hear you"; it
\* returns the answer of the backend, trimmed, when that is a line of the
\* catalog, and a phrase of the fallback path on every other answer, on an
\* error of the backend and without a backend.
C25_CatalogEntryOrLastResort ==
    (result # << >> /\ result[1].op = "generate_response") =>
        LET call == result[1]
        IN  /\ call.ret.ok
            /\ call.ret.value \in PhrasesOf(phrases, PhraseCategories) \cup {"I hear you"}
            /\ IF AnswerInCatalog(call)
               THEN call.reply.text \in
                       {before \o <<call.ret.value>> \o after :
                            before, after \in {<< >>, <<"SP">>}}
               ELSE call.ret.value \in FallbackPhrases(phrases, call.tone, call.intent)

\* C25 witness: an answer with whitespace around a catalog line was accepted
\* for a tone whose categories do not hold that line.
C25_Witness ==
    /\ result # << >>
    /\ result[1].op = "generate_response"
    /\ phrases = LoadedCatalog
    /\ result[1].tone = "sad"
    /\ result[1].reply = [kind |-> "text", text |-> <<"SP", "That's great", "SP">>]
    /\ result[1].ret = Returned("That's great")

\* An answer that is no catalog line went to the fallback, which found the
\* selected categories empty and took the phrase of active_listening.
C25_FallbackToActiveListening ==
    /\ result # << >>
    /\ result[1].op = "generate_response"
    /\ phrases = ListeningCatalog
    /\ result[1].tone = "happy"
    /\ result[1].reply = [kind |-> "text", text |-> <<"Sure thing">>]
    /\ result[1].ret = Returned("Mm-hmm")

-----------------------------------------------------------------------------
(* Properties of the crisis resources, checked under SpecChecker *)

\* The resource bucket of a harm category.
BucketOf(category) ==
    CASE category = "suicide_self_harm" -> "suicide_self_harm"
      [] category = "self_harm" -> "suicide_self_harm"
      [] category = "abuse" -> "abuse"
      [] OTHER -> "general_support"

\* C26 as stated: format_response_with_resources returns the supportive
\* message followed by the name and the phone of the first helpline of the
\* category's bucket when the category requires crisis resources and that
\* bucket has a helpline, and the supportive message alone otherwise.
C26_PrimaryHelplineAppended ==
    (result # << >> /\ result[1].op = "format_response_with_resources") =>
        /\ result[1].ret.ok
        /\ LET category == result[1].arg
               parts    == result[1].ret.value
               buckets  == DictGet(resources, "crisis_resources", EmptyDict)
               bucket   == DictGet(buckets, BucketOf(category), EmptyDict)
               lines    == DictGet(bucket, "helplines", << >>)
           IN  /\ parts[1] = supportive_message(category)
               /\ IF category \in CRISIS_CATEGORIES /\ lines # << >>
                  THEN /\ Len(parts) > 1
                       /\ "name" \in DOMAIN lines[1] /\ lines[1].name \in Elems(Tail(parts))
                       /\ "phone" \in DOMAIN lines[1] /\ lines[1].phone \in Elems(Tail(parts))
                  ELSE Len(parts) = 1

\* The catalog a resource file stands for: its document, or the built-in
\* table when no document can be had from it.
CatalogOf(file) == IF file.kind = "json" THEN file.doc ELSE default_resources

\* C28 as stated: after a reload the catalog is the document of the file as
\* it is now, or the built-in table when no document can be had from the
\* file, whatever was loaded before; hence also after a second reload of
\* the same file.
C28_ReloadReflectsResource ==
    Len(prev) > 1 => resources = CatalogOf(prev[Len(prev)].arg)

-----------------------------------------------------------------------------
(* Properties of a turn and the persona store, checked under Spec and *)
(* SpecShared *)

\* C29 as stated: no step of a chat turn, whatever its persona_id and
\* whatever the store holds, changes the stored personas.
C29_TurnReadsStoreOnly == [][ChatNext => personas' = personas]_vars

\* The fields of its persona a turn hands to compute_voice_settings and to
\* synthesize_speech.
VoiceFields(persona) ==
    [f \in {"voice_id", "base_stability", "base_similarity_boost", "base_style"} |->
        persona[f]]

=============================================================================
